---- MODULE Spec2Model ----
(***************************************************************************)
(* A model of pc, the source -> destination replication tool (pc.c).      *)
(*                                                                         *)
(*   SpecCopy    file_copy(), one action per code segment                  *)
(*   SpecUpdate  node_update() applied to one source/destination pair      *)
(*   Spec        the replication driver: dirnode_compare() over a small    *)
(*               filesystem, run twice with the same options               *)
(***************************************************************************)
EXTENDS Integers, Sequences, FiniteSets, TLC

(***************************************************************************)
(* Bounds of the model.                                                    *)
(***************************************************************************)
\* length of the longest source file of SpecCopy, in bytes
MaxLen == 4
\* bytes read per read() call: stands for sizeof(buf), pc.c:326
BufSize == 2
\* number of injected operation failures in one run of the driver
MaxFail == 1

VARIABLES
  \* ---- the options (pc.c:136-151)
  f_update, f_force, f_ignore, f_recurse, f_remove, f_content, f_zero,
  f_perms, f_owner, f_times, f_acls, f_attrs, f_flags, f_verbose, f_digest,
  \* ---- file_copy (SpecCopy)
  cpc,      \* position in file_copy
  csrc,     \* the bytes of the source file
  cdst,     \* the destination file: NoFile or its bytes
  cst,      \* the locals of file_copy: src_fd, dst_fd, pos, spos, sbytes, tbytes, holed, rc
  cpre,     \* the destination file as it was before the call
  \* ---- the environment
  fs,       \* the filesystem: path (sequence of names) -> object
  cred,     \* the caller: uid (getuid), euid (geteuid), gids (gidsetv)
  suid_clear, \* the kernel clears setuid/setgid bits on chown
  log,      \* the operations issued so far, in order
  \* ---- node_update (SpecUpdate)
  upc,      \* "call" before node_update, "done" after it
  usrc,     \* src_nip
  udst,     \* dst_nip (NULL: no destination node)
  ures,     \* what node_update returned: rv, crash
  \* ---- the driver (Spec)
  dpc,      \* "main" before main loads its arguments, "run", "exit", "crash"
  argv,     \* the arguments: srcs (the source paths) and dst
  stack,    \* the dirnode_compare calls in progress, innermost last
  run,      \* 1 for the first run of the program, 2 for the second
  clock,    \* the time, in seconds
  fails,    \* operation failures injected so far in this run
  fs0,      \* the filesystem when the current run started
  exitrc,   \* what main returned
  \* ---- the ordered map (SpecTree)
  tpc,      \* "insert" while the names are inserted, "walk", "done"
  tin,      \* the names in the order they are enumerated
  ti,       \* the index in tin of the name inserted next
  tree,     \* the binary tree: position (a path of "l"/"r" from the head) -> key
  tstop,    \* the keys on which the handler of the walk returns non-zero
  tout,     \* the keys the walk handed to its handler, in order
  trc,      \* what btree_insert returned last, then what btree_foreach returned
  \* ---- the digest instance (SpecDigest)
  have,     \* the algorithms the build provides (HAVE_...)
  dg,       \* the DIGEST: type, state, ctx
  glast,    \* the call made last: op, tag, rc, errno, pre (the DIGEST before it)
  gcalls,   \* the number of calls made
  \* ---- the map with values (SpecMap)
  mheap,    \* the BNODEs allocated: id -> parent, left, right, key, val (a freed node keeps its bytes)
  mbt,      \* the BTREE: head, entries, vfree, live
  mfreed,   \* what was released, in order: <<"val", v>> is vfree(v), <<"key", p>>, <<"node", n>>
  mlast,    \* the call made last: op, key, val, rc, errno, pre (heap and BTREE before it)
  mfound,   \* what btree_search handed back last: key, rc, val
  mcalls,   \* the number of calls made
  mown,     \* the calls of btree_insert that returned 0: call i stored key i and value i
  \* ---- the loads that fail (Spec)
  lfail,    \* the calls that fail while a directory is loaded: <<"opendir", dir>>, <<"lstat", child>>
  \* ---- dirnode_add on a path as it is written (SpecPath)
  ppath,    \* the path handed to dirnode_add, its characters
  pres,     \* what dirnode_add did: rc, the keys inserted, dirname, nodename, the path opened; <<>> before the call
  \* ---- node_compare on its own (SpecCompare)
  cmpa,     \* the source node handed to node_compare
  cmpb,     \* the destination node
  cmpd      \* the mask node_compare returned, -2 before the call

optVars  == <<f_update, f_force, f_ignore, f_recurse, f_remove, f_content, f_zero,
              f_perms, f_owner, f_times, f_acls, f_attrs, f_flags, f_verbose, f_digest>>
copyVars == <<cpc, csrc, cdst, cst, cpre>>
envVars  == <<fs, cred, suid_clear, log>>
updVars  == <<upc, usrc, udst, ures>>
drvVars  == <<dpc, argv, stack, run, clock, fails, fs0, exitrc>>
treeVars == <<tpc, tin, ti, tree, tstop, tout, trc>>
digVars == <<have, dg, glast, gcalls>>
mapVars == <<mheap, mbt, mfreed, mlast, mfound, mcalls, mown>>
loadVars == <<lfail>>
pathVars == <<ppath, pres>>
cmpVars == <<cmpa, cmpb, cmpd>>
vars     == <<optVars, copyVars, envVars, updVars, drvVars, treeVars, digVars, mapVars, loadVars, pathVars, cmpVars>>

\* no such file (never the bytes of a file), a null string, a null map, a null NODE
NoFile   == <<-1>>
NULL     == "NULL"
NullMap  == [n \in {"NULL"} |-> <<>>]
NullNode == [null |-> TRUE]

Min(a, b) == IF a < b THEN a ELSE b
Max(a, b) == IF a > b THEN a ELSE b

RECURSIVE Zeros(_)
Zeros(n) == IF n <= 0 THEN <<>> ELSE <<0>> \o Zeros(n - 1)

(***************************************************************************)
(* The file as the kernel keeps it: write() at an offset past the end      *)
(* fills the gap with NUL bytes (a hole), lseek() alone changes nothing.   *)
(***************************************************************************)
WriteAt(data, pos, buf) ==
  LET padded == IF pos > Len(data) THEN data \o Zeros(pos - Len(data)) ELSE data
      n      == Max(Len(padded), pos + Len(buf))
  IN  [i \in 1..n |-> IF i > pos /\ i <= pos + Len(buf) THEN buf[i - pos] ELSE padded[i]]

(***************************************************************************)
(* buffer_zero_check: 1 iff the buffer holds NUL bytes only                *)
(***************************************************************************)
RECURSIVE buffer_zero_check(_, _)
buffer_zero_check(buf, len) ==
  IF len > 0 /\ buf[Len(buf) - len + 1] = 0
    THEN buffer_zero_check(buf, len - 1)
    ELSE (IF len = 0 THEN 1 ELSE 0)

\* the locals of file_copy at its entry
CopyLocals == [src_fd |-> -1, dst_fd |-> -1, pos |-> 0, spos |-> 0,
               sbytes |-> 0, tbytes |-> 0, holed |-> 0, rc |-> -1]

\* read(src_fd, buf, sizeof(buf)) at offset spos
ReadBuf(data, spos) == SubSeq(data, spos + 1, Min(Len(data), spos + BufSize))

(***************************************************************************)
(* One turn of the read loop of file_copy with a non-empty read:           *)
(* an all-NUL block is skipped by lseek when f_zero, else it is written.   *)
(* st is <<locals, destination bytes>>; ioerr: the lseek/write fails.      *)
(***************************************************************************)
copy_block(loc, dst, buf, zero, ioerr) ==
  LET sb == Len(buf)
      l1 == [loc EXCEPT !.sbytes = sb, !.spos = @ + sb]
  IN  IF zero /\ buffer_zero_check(buf, sb) = 1
        THEN IF ioerr
               THEN <<[l1 EXCEPT !.holed = 1, !.rc = -1], dst, "End">>
               ELSE <<[l1 EXCEPT !.holed = 1, !.pos = @ + sb, !.tbytes = @ + sb, !.rc = loc.pos + sb],
                      dst, "loop">>
        ELSE IF ioerr
               THEN <<[l1 EXCEPT !.rc = -1], dst, "End">>
               ELSE <<[l1 EXCEPT !.pos = @ + sb, !.tbytes = @ + sb, !.rc = sb],
                      WriteAt(dst, loc.pos, buf), "loop">>

(***************************************************************************)
(* After the loop: rc = sbytes; when a block was skipped, step back one    *)
(* byte and write one NUL byte.                                            *)
(***************************************************************************)
copy_tail(loc, dst, seekerr, writeerr) ==
  LET l1 == [loc EXCEPT !.rc = loc.sbytes]
  IN  IF loc.holed = 1
        THEN IF seekerr \/ loc.pos - 1 < 0
               THEN <<[l1 EXCEPT !.rc = -1], dst, "End">>
               ELSE IF writeerr
                      THEN <<[l1 EXCEPT !.pos = @ - 1, !.rc = -1], dst, "End">>
                      ELSE <<[l1 EXCEPT !.tbytes = @ + loc.sbytes],
                             WriteAt(dst, loc.pos - 1, <<0>>), "End">>
        ELSE <<[l1 EXCEPT !.tbytes = @ + loc.sbytes], dst, "End">>

\* the read loop and the tail run to their end with no failure
RECURSIVE copy_loop(_, _, _, _)
copy_loop(loc, dst, src, zero) ==
  LET buf == ReadBuf(src, loc.spos)
  IN  IF Len(buf) = 0
        THEN copy_tail(loc, dst, FALSE, FALSE)
        ELSE LET r == copy_block(loc, dst, buf, zero, FALSE)
             IN  copy_loop(r[1], r[2], src, zero)

(***************************************************************************)
(* file_copy as one call: src and dst are the two files' bytes (NoFile: no *)
(* such file), fail names the call that fails ("none", "open_src",         *)
(* "open_dst", "read").  Returns rc and the destination file.              *)
(***************************************************************************)
file_copy(src, dst, zero, fail) ==
  IF src = NoFile \/ fail = "open_src" THEN [rc |-> -1, dst |-> dst]
  ELSE IF fail = "open_dst" THEN [rc |-> -1, dst |-> dst]
  ELSE IF fail = "read" THEN [rc |-> -1, dst |-> <<>>]
  ELSE LET r == copy_loop(CopyLocals, <<>>, src, zero)
       IN  [rc |-> r[1].rc, dst |-> r[2]]

(***************************************************************************)
(* Filesystem objects.  A path is a sequence of names, relative to the     *)
(* working directory; strdupcat(path, "/", key) is Append(path, key).      *)
(*   type   "reg" "dir" "lnk" "fifo" "chr"  (st_mode & S_IFMT)             *)
(*   mode   the permission bits of st_mode, S_ISUID = 2048, S_ISGID = 1024 *)
(*   data   the bytes of a regular file; st_size = Len(data)               *)
(*   link   the target of a symbolic link, a sequence of non-zero bytes    *)
(*   flags  st_flags as a set of flag names, "uarch" is UF_ARCHIVE         *)
(*   usr, sys   extended attributes: name -> value (a byte sequence)       *)
(*   nfs, acc, def   the ACLs as their text, or NULL                       *)
(*   rdev   st_rdev, the device a device node denotes                      *)
(*   dev    st_dev, the filesystem the object is on: that of its directory *)
(***************************************************************************)
NoAttrs == [n \in {} |-> <<>>]

DefObj(t) == [type |-> t, mode |-> 420, uid |-> 1, gid |-> 1, data |-> <<>>,
              mtime |-> 1, atime |-> 1, link |-> <<>>, rdev |-> 0, dev |-> 0,
              flags |-> {},
              usr |-> NoAttrs, sys |-> NoAttrs, nfs |-> NULL, acc |-> NULL, def |-> NULL]

Parent(p)   == SubSeq(p, 1, Len(p) - 1)
Base(p)     == p[Len(p)]
Exists(f, p) == p \in DOMAIN f
IsDir(f, p)  == Exists(f, p) /\ f[p].type = "dir"
\* the working directory itself always exists
ParentOk(f, p) == Len(p) = 1 \/ IsDir(f, Parent(p))
Children(f, p) == {q \in DOMAIN f : Len(q) = Len(p) + 1 /\ Parent(q) = p}

\* the names of the model in strcmp order
SortedNames == <<"a", "b", "c", "d", "extra", "foo", "goo", "x">>
NameRank(n) == CHOOSE i \in 1..Len(SortedNames) : SortedNames[i] = n

\* the keys of a map in the order btree_foreach visits them
RECURSIVE SortKeys(_)
SortKeys(S) ==
  IF S = {} THEN <<>>
  ELSE LET m == CHOOSE x \in S : \A y \in S : NameRank(x) <= NameRank(y)
       IN  <<m>> \o SortKeys(S \ {m})

\* f with p bound to obj, and f without p
Put(f, p, obj) == [q \in DOMAIN f \cup {p} |-> IF q = p THEN obj ELSE f[q]]
Del(f, p)      == [q \in DOMAIN f \ {p} |-> f[q]]
\* an entry was added to or removed from directory Parent(p) at time now
Touch(f, p, now) ==
  IF Len(p) > 1 /\ Exists(f, Parent(p))
    THEN [f EXCEPT ![Parent(p)].mtime = now]
    ELSE f

(***************************************************************************)
(* The system calls.  Each returns [ok, errno, fs, ret]; inj: the call     *)
(* fails by injection (an I/O error), whatever the state of the object.    *)
(***************************************************************************)
Fail(f, e) == [ok |-> FALSE, errno |-> e, fs |-> f, ret |-> -1]
Done(f, r) == [ok |-> TRUE, errno |-> "", fs |-> f, ret |-> r]

sys_create(f, p, obj, now, inj) ==
  IF inj THEN Fail(f, "EIO")
  ELSE IF Exists(f, p) THEN Fail(f, "EEXIST")
  ELSE IF ~ParentOk(f, p) THEN Fail(f, "ENOENT")
  ELSE Done(Touch(Put(f, p, [obj EXCEPT !.mtime = now, !.atime = now,
                                        !.uid = cred.euid,
                                        !.dev = IF Len(p) > 1 THEN f[Parent(p)].dev ELSE 0]),
                  p, now), 0)

sys_mkdir(f, p, mode, now, inj) ==
  sys_create(f, p, [DefObj("dir") EXCEPT !.mode = mode], now, inj)

sys_symlink(f, target, p, now, inj) ==
  sys_create(f, p, [DefObj("lnk") EXCEPT !.link = target, !.mode = 493], now, inj)

sys_mknod(f, p, type, mode, dev, now, inj) ==
  sys_create(f, p, [DefObj(type) EXCEPT !.mode = mode, !.rdev = dev], now, inj)

sys_unlink(f, p, now, inj) ==
  IF inj THEN Fail(f, "EIO")
  ELSE IF ~Exists(f, p) THEN Fail(f, "ENOENT")
  ELSE IF f[p].type = "dir" THEN Fail(f, "EPERM")
  ELSE Done(Touch(Del(f, p), p, now), 0)

sys_rmdir(f, p, now, inj) ==
  IF inj THEN Fail(f, "EIO")
  ELSE IF ~Exists(f, p) THEN Fail(f, "ENOENT")
  ELSE IF f[p].type # "dir" THEN Fail(f, "ENOTDIR")
  ELSE IF Children(f, p) # {} THEN Fail(f, "ENOTEMPTY")
  ELSE Done(Touch(Del(f, p), p, now), 0)

\* mode without the setuid and setgid bits
ClearSuid(mode) == (mode % 1024) + (mode \div 4096) * 4096

sys_lchown(f, p, uid, gid, inj) ==
  IF inj THEN Fail(f, "EIO")
  ELSE IF ~Exists(f, p) THEN Fail(f, "ENOENT")
  ELSE IF cred.euid # 0 /\
          ~(f[p].uid = cred.euid /\ uid = cred.euid /\ (gid = f[p].gid \/ gid \in cred.gids))
         THEN Fail(f, "EPERM")
  ELSE Done([f EXCEPT ![p].uid = uid, ![p].gid = gid,
                      ![p].mode = IF suid_clear THEN ClearSuid(@) ELSE @], 0)

sys_lchmod(f, p, mode, inj) ==
  IF inj THEN Fail(f, "EIO")
  ELSE IF ~Exists(f, p) THEN Fail(f, "ENOENT")
  ELSE IF cred.euid # 0 /\ f[p].uid # cred.euid THEN Fail(f, "EPERM")
  ELSE Done([f EXCEPT ![p].mode = mode], 0)

\* extattr_set_link returns the number of bytes written
sys_extattr_set(f, p, ns, key, val, inj) ==
  IF inj THEN Fail(f, "EIO")
  ELSE IF ~Exists(f, p) THEN Fail(f, "ENOENT")
  ELSE LET old == f[p][ns]
           new == [k \in DOMAIN old \cup {key} |-> IF k = key THEN val ELSE old[k]]
       IN  Done([f EXCEPT ![p][ns] = new], Len(val))

sys_extattr_delete(f, p, ns, key, inj) ==
  IF inj THEN Fail(f, "EIO")
  ELSE IF ~Exists(f, p) THEN Fail(f, "ENOENT")
  ELSE IF key \notin DOMAIN f[p][ns] THEN Fail(f, "ENOATTR")
  ELSE LET old == f[p][ns]
       IN  Done([f EXCEPT ![p][ns] = [k \in DOMAIN old \ {key} |-> old[k]]], 0)

sys_acl_set(f, p, kind, acl, inj) ==
  IF inj THEN Fail(f, "EIO")
  ELSE IF ~Exists(f, p) THEN Fail(f, "ENOENT")
  ELSE Done([f EXCEPT ![p][kind] = acl], 0)

sys_utimensat(f, p, atime, mtime, inj) ==
  IF inj THEN Fail(f, "EIO")
  ELSE IF ~Exists(f, p) THEN Fail(f, "ENOENT")
  ELSE Done([f EXCEPT ![p].atime = atime, ![p].mtime = mtime], 0)

sys_lchflags(f, p, flags, inj) ==
  IF inj THEN Fail(f, "EIO")
  ELSE IF ~Exists(f, p) THEN Fail(f, "ENOENT")
  ELSE Done([f EXCEPT ![p].flags = flags], 0)

\* the digest of a file's bytes (a one-byte checksum stands for the algorithm)
RECURSIVE ByteSum(_)
ByteSum(q) == IF q = <<>> THEN 0 ELSE Head(q) + ByteSum(Tail(q))
file_digest(data) == <<(ByteSum(data) + Len(data)) % 256>>

(***************************************************************************)
(* NODE and node_get: the metadata of the object at path p as the options  *)
(* make node_get load it.  The system namespace lists for root only.       *)
(***************************************************************************)
\* char buf[1024] of node_get, scaled down
LinkBuf == 3

\* readlink(path, buf, bufsiz): at most bufsiz bytes of the target, not terminated
sys_readlink(f, p, bufsiz) ==
  SubSeq(f[p].link, 1, IF Len(f[p].link) < bufsiz THEN Len(f[p].link) ELSE bufsiz)

\* strndup(buf, len): the bytes of buf before the first NUL, at most len of them
strndup(buf, len) ==
  LET n    == IF Len(buf) < len THEN Len(buf) ELSE len
      nuls == {i \in 1..n : buf[i] = 0}
  IN  SubSeq(buf, 1, IF nuls = {} THEN n ELSE (CHOOSE i \in nuls : \A j \in nuls : i <= j) - 1)

node_get(f, p) ==
  LET o == f[p]
  IN  [p |-> p, type |-> o.type, mode |-> o.mode, uid |-> o.uid, gid |-> o.gid,
       size |-> Len(o.data), mtime |-> o.mtime, atime |-> o.atime, rdev |-> o.rdev,
       dev |-> o.dev,
       d   |-> IF f_digest # 0 /\ o.type = "reg" THEN file_digest(o.data) ELSE <<>>,
       flags |-> o.flags,
       l   |-> IF o.type = "lnk" THEN strndup(sys_readlink(f, p, LinkBuf - 1), LinkBuf - 1)
                                 ELSE NULL,
       nfs |-> IF f_acls # 0 THEN o.nfs ELSE NULL,
       acc |-> IF f_acls # 0 THEN o.acc ELSE NULL,
       def |-> IF f_acls # 0 THEN o.def ELSE NULL,
       sys |-> IF f_attrs # 0 /\ cred.euid = 0 THEN o.sys ELSE NullMap,
       usr |-> IF f_attrs # 0 THEN o.usr ELSE NullMap]

in_gidset(g) == IF g \in cred.gids THEN 1 ELSE 0

timespec_compare(a, b) == IF a = b THEN 0 ELSE IF a < b THEN -1 ELSE 1

\* ACLs compare by their text
acl_compare(a, b) ==
  IF a = NULL /\ b # NULL THEN -1
  ELSE IF a # NULL /\ b = NULL THEN -1
  ELSE IF a # b THEN 1 ELSE 0

(***************************************************************************)
(* attr_compare: every attribute of a is in b with the same bytes and,     *)
(* under f_remove, every attribute of b is in a.                           *)
(***************************************************************************)
attr_compare_handler(key, aip, btp) ==
  IF key \notin DOMAIN btp THEN -1
  ELSE IF Len(aip) # Len(btp[key]) THEN 1
  ELSE IF aip # btp[key] THEN 2
  ELSE 0

attr_compare(a, b) ==
  IF b = NullMap
    THEN (IF DOMAIN a = {} THEN 0 ELSE 1)
  ELSE IF \E k \in DOMAIN a : attr_compare_handler(k, a[k], b) # 0 THEN 1
  ELSE IF f_remove # 0 /\ (\E k \in DOMAIN b : attr_compare_handler(k, b[k], a) # 0) THEN -1
  ELSE 0

(***************************************************************************)
(* node_compare: the divergence mask of two nodes, as a sum of its bits    *)
(***************************************************************************)
node_compare(a, b) ==
  IF a = NullNode /\ b = NullNode THEN 0
  ELSE IF a = NullNode \/ b = NullNode THEN -1
  ELSE
    (IF a.type # b.type THEN 1 ELSE 0)                                   \* 0x00000001
  + (IF f_owner # 0 /\ a.uid # b.uid /\ (a.uid = cred.uid \/ cred.euid = 0)
       THEN 2 ELSE 0)                                                    \* 0x00000002
  + (IF f_owner # 0 /\ a.gid # b.gid /\ (cred.euid = 0 \/ in_gidset(a.gid) = 1)
       THEN 4 ELSE 0)                                                    \* 0x00000004
  + (IF a.type = "lnk" /\ a.l # b.l THEN 16 ELSE 0)                      \* 0x00000010
  + (IF a.type \in {"blk", "chr"} /\ a.dev # b.dev THEN 32 ELSE 0)       \* 0x00000020
  + (IF f_times # 0 /\ (IF f_times < 2 THEN a.mtime > b.mtime ELSE a.mtime # b.mtime)
       THEN 256 ELSE 0)                                                  \* 0x00000100
  + (IF f_content # 0 /\ a.type = "reg" /\ a.size # b.size THEN 4096 ELSE 0)   \* 0x00001000
  + (IF f_content # 0 /\ a.type = "reg" /\ f_digest # 0 /\ Len(a.d) # 0
       THEN (IF Len(a.d) # Len(b.d) THEN 65536                           \* 0x00010000
             ELSE IF a.d # b.d THEN 131072 ELSE 0)                       \* 0x00020000
       ELSE 0)
  + (IF f_acls # 0 /\ a.nfs # NULL /\ acl_compare(a.nfs, b.nfs) # 0 THEN 1048576 ELSE 0)  \* 0x00100000
  + (IF f_acls # 0 /\ a.acc # NULL /\ acl_compare(a.acc, b.acc) # 0 THEN 2097152 ELSE 0)  \* 0x00200000
  + (IF f_acls # 0 /\ a.def # NULL /\ acl_compare(a.def, b.def) # 0 THEN 4194304 ELSE 0)  \* 0x00400000
  + (IF f_attrs # 0 /\ a.sys # NullMap /\ attr_compare(a.sys, b.sys) # 0
       THEN 16777216 ELSE 0)                                             \* 0x01000000
  + (IF f_attrs # 0 /\ a.usr # NullMap /\ attr_compare(a.usr, b.usr) # 0
       THEN 33554432 ELSE 0)                                             \* 0x02000000
  + (IF f_flags # 0 /\ (a.flags \ {"uarch"}) # (b.flags \ {"uarch"})
       THEN 268435456 ELSE 0)                                            \* 0x10000000
  + (IF f_flags > 1 /\ "uarch" \in a.flags THEN 536870912 ELSE 0)        \* 0x20000000

\* d & mask # 0, mask given as the set of its bits
HasBit(d, b)     == (d \div b) % 2 = 1
AndMask(d, bits) == \E b \in bits : HasBit(d, b)
RECURSIVE Pow2(_)
Pow2(n) == IF n = 0 THEN 1 ELSE 2 * Pow2(n - 1)
\* 0x200fff00: archive, digest, mtime, size
ContentMask == {Pow2(k) : k \in 8..19} \cup {Pow2(29)}
\* 0x000000f0: symbolic link content
LinkMask    == {Pow2(k) : k \in 4..7}

(***************************************************************************)
(* node_update.  The state threaded through its steps:                     *)
(*   fs    the filesystem          log   the calls issued, in order        *)
(*   rc    the local rc            ret, rv   returned, and the value       *)
(*   crash the process died on a read through a null dst_nip               *)
(*   ok, errno, res   the outcome of the call issued last                  *)
(* Every step is skipped once the function has returned.  F is the set of  *)
(* calls that fail by injection; ub is what a read through the null        *)
(* dst_nip yields: "crash", or "null" (the field reads as NULL).           *)
(***************************************************************************)
UState(f) == [fs |-> f, rc |-> 0, ret |-> FALSE, rv |-> 0, log |-> <<>>, crash |-> FALSE,
              ok |-> TRUE, errno |-> "", res |-> 0]
LogOp(u, who, kind, p, r) ==
  [u EXCEPT !.fs = r.fs,
            !.log = Append(@, [op |-> kind, path |-> p, ok |-> r.ok, errno |-> r.errno,
                               who |-> who]),
            !.ok = r.ok, !.errno = r.errno, !.res = r.ret]
Logged(u, kind, p, r) == LogOp(u, "node_update", kind, p, r)
Return(u, v) == [u EXCEPT !.ret = TRUE, !.rv = v]
Crash(u)     == [u EXCEPT !.ret = TRUE, !.crash = TRUE, !.rv = -1]

\* rc = -1; if (!f_ignore) return rc;
Failed(u) == IF f_ignore = 0 THEN Return([u EXCEPT !.rc = -1], -1) ELSE [u EXCEPT !.rc = -1]
\* if (call(...) < 0 [&& errno != EPERM]) { rc = -1; ... }
Checked(u, allowed) == IF ~u.ok /\ u.errno \notin allowed THEN Failed(u) ELSE u
\* rc = call(...); if (rc < 0) return f_ignore ? 0 : rc;
RcChecked(u) ==
  IF u.res < 0 THEN Return([u EXCEPT !.rc = u.res], IF f_ignore # 0 THEN 0 ELSE u.res)
               ELSE [u EXCEPT !.rc = u.res]

\* if (f_owner) ... lchown
upd_owner(u, src, dst, dstpath, F) ==
  IF u.ret \/ f_owner = 0 THEN u
  ELSE IF ~(dst = NullNode \/ src.uid # dst.uid \/ src.gid # dst.gid) THEN u
  ELSE IF ~(src.uid = cred.uid \/ cred.euid = 0) THEN u
  ELSE Checked(Logged(u, "lchown", dstpath,
                      sys_lchown(u.fs, dstpath, src.uid, src.gid, "lchown" \in F)),
               {"EPERM"})

\* if (f_perms) ... lchmod, skipped when dst_nip already has the mode
upd_mode(u, src, dst, dstpath, F) ==
  IF u.ret \/ f_perms = 0 THEN u
  ELSE IF ~(dst = NullNode \/ src.mode # dst.mode \/ src.type # dst.type) THEN u
  ELSE Checked(Logged(u, "lchmod", dstpath,
                      sys_lchmod(u.fs, dstpath, src.mode, "lchmod" \in F)),
               {})

\* attr_update: install the attribute unless the map in aup has it, identical;
\* res is what the handler returns
attr_update(u, key, aip, attrs, dstpath, ns, F) ==
  IF attrs # NullMap /\ f_force = 0 /\ key \in DOMAIN attrs /\
     Len(attrs[key]) = Len(aip) /\ attrs[key] = aip
    THEN [u EXCEPT !.res = 0]
    ELSE Logged(u, "extattr_set_" \o ns, dstpath,
                sys_extattr_set(u.fs, dstpath, ns, key, aip, ("extattr_set_" \o ns) \in F))

\* attr_remove: delete the attribute unless the (source) map in aup has it
attr_remove(u, key, attrs, dstpath, ns, F) ==
  IF attrs # NullMap /\ key \in DOMAIN attrs
    THEN [u EXCEPT !.res = 0]
    ELSE Logged(u, "extattr_delete_" \o ns, dstpath,
                sys_extattr_delete(u.fs, dstpath, ns, key, ("extattr_delete_" \o ns) \in F))

\* btree_foreach over the keys from the i-th on: the walk ends when the handler
\* has returned non-zero on the key before
RECURSIVE attr_foreach(_, _, _, _, _, _, _, _, _)
attr_foreach(u, fun, keys, i, map, attrs, dstpath, ns, F) ==
  IF i > Len(keys) \/ (i > 1 /\ u.res # 0) THEN u
  ELSE attr_foreach(IF fun = "update"
                      THEN attr_update(u, keys[i], map[keys[i]], attrs, dstpath, ns, F)
                      ELSE attr_remove(u, keys[i], attrs, dstpath, ns, F),
                    fun, keys, i + 1, map, attrs, dstpath, ns, F)

\* if (f_remove && ...) btree_foreach(dst_nip->x.<ns>, attr_remove, &aub): the system
\* namespace tests src_nip->x.sys again, the user namespace dst_nip->x.usr
attrs_expunge(u, smap, dmap, dstpath, ns, F) ==
  IF f_remove # 0 /\ (IF ns = "sys" THEN smap # NullMap ELSE dmap # NullMap) /\ dmap # NullMap
    THEN attr_foreach(u, "remove", SortKeys(DOMAIN dmap), 1, dmap, smap, dstpath, ns, F)
    ELSE u

\* one namespace of if (f_attrs): the source map is walked, then the destination map
upd_attrs_ns(u, src, dst, dstpath, ns, F, ub) ==
  IF u.ret \/ src[ns] = NullMap THEN u
  ELSE IF dst = NullNode /\ ub = "crash" THEN Crash(u)
  ELSE LET dmap == IF dst = NullNode THEN NullMap ELSE dst[ns]
       IN  attrs_expunge(attr_foreach(u, "update", SortKeys(DOMAIN src[ns]), 1, src[ns],
                                      dmap, dstpath, ns, F),
                         src[ns], dmap, dstpath, ns, F)

upd_attrs(u, src, dst, dstpath, F, ub) ==
  IF u.ret \/ f_attrs = 0 THEN u
  ELSE upd_attrs_ns(upd_attrs_ns(u, src, dst, dstpath, "sys", F, ub),
                    src, dst, dstpath, "usr", F, ub)

\* one ACL type of if (f_acls)
upd_acl(u, src, dst, dstpath, kind, F, ub) ==
  IF u.ret \/ src[kind] = NULL THEN u
  ELSE IF dst = NullNode /\ ub = "crash" THEN Crash(u)
  ELSE LET dacl == IF dst = NullNode THEN NULL ELSE dst[kind]
       IN  IF ~(dacl = NULL \/ acl_compare(src[kind], dacl) # 0) THEN u
           ELSE Checked(Logged(u, "acl_set_" \o kind, dstpath,
                               sys_acl_set(u.fs, dstpath, kind, src[kind],
                                           ("acl_set_" \o kind) \in F)),
                        {})

upd_acls(u, src, dst, dstpath, F, ub) ==
  IF u.ret \/ f_acls = 0 THEN u
  ELSE upd_acl(upd_acl(upd_acl(u, src, dst, dstpath, "nfs", F, ub),
                       src, dst, dstpath, "acc", F, ub),
               src, dst, dstpath, "def", F, ub)

\* if (f_times > 1) ... utimensat; rc is assigned the call's result
upd_times(u, src, dst, dstpath, F) ==
  IF u.ret \/ ~(f_times > 1) THEN u
  ELSE IF ~(dst = NullNode \/ timespec_compare(src.mtime, dst.mtime) # 0
                           \/ timespec_compare(src.atime, dst.atime) # 0) THEN u
  ELSE RcChecked(Logged(u, "utimensat", dstpath,
                        sys_utimensat(u.fs, dstpath, src.atime, src.mtime, "utimensat" \in F)))

\* the archive flag of the source cleared at every level of f_flags
upd_flags_src_any_level(u, src, F) ==
  IF u.ret \/ ~(f_flags > 0 /\ "uarch" \in src.flags) THEN u
  ELSE RcChecked(Logged(u, "lchflags_src", src.p,
                        sys_lchflags(u.fs, src.p, src.flags \ {"uarch"}, "lchflags_src" \in F)))

\* if (f_flags) ... lchflags on the destination, then on the source
upd_flags_dst(u, src, dst, dstpath, F) ==
  IF u.ret \/ f_flags = 0 THEN u
  ELSE IF ~(dst = NullNode \/ (src.flags \ {"uarch"}) # (dst.flags \ {"uarch"})) THEN u
  ELSE RcChecked(Logged(u, "lchflags", dstpath,
                        sys_lchflags(u.fs, dstpath, src.flags, "lchflags" \in F)))

upd_flags_src(u, src, F) ==
  IF u.ret \/ ~(f_flags > 1 /\ "uarch" \in src.flags) THEN u
  ELSE RcChecked(Logged(u, "lchflags_src", src.p,
                        sys_lchflags(u.fs, src.p, src.flags \ {"uarch"}, "lchflags_src" \in F)))

\* return rc;
upd_return(u) == IF u.ret THEN u ELSE Return(u, u.rc)

\* node_update with the mode applied before the owner
node_update_mode_first(f, src, dst, dstpath, F, ub) ==
  upd_return(
    upd_flags_src(
      upd_flags_dst(
        upd_times(
          upd_acls(
            upd_attrs(
              upd_owner(
                upd_mode(UState(f), src, dst, dstpath, F),
                src, dst, dstpath, F),
              src, dst, dstpath, F, ub),
            src, dst, dstpath, F, ub),
          src, dst, dstpath, F),
        src, dst, dstpath, F),
      src, F))

\* owner, mode, extended attributes, ACLs, times, flags
node_update(f, src, dst, dstpath, F, ub) ==
  upd_return(
    upd_flags_src(
      upd_flags_dst(
        upd_times(
          upd_acls(
            upd_attrs(
              upd_mode(
                upd_owner(UState(f), src, dst, dstpath, F),
                src, dst, dstpath, F),
              src, dst, dstpath, F, ub),
            src, dst, dstpath, F, ub),
          src, dst, dstpath, F),
        src, dst, dstpath, F),
      src, F))


(***************************************************************************)
(* The variables a specification does not use keep these values.           *)
(***************************************************************************)
Root == [uid |-> 0, euid |-> 0, gids |-> {0}]
User == [uid |-> 1, euid |-> 1, gids |-> {1, 2}]

CopyIdle == cpc = "idle" /\ csrc = <<>> /\ cdst = <<>> /\ cst = CopyLocals /\ cpre = <<>>
EnvIdle  == fs = <<>> /\ cred = Root /\ suid_clear = FALSE /\ log = <<>>
UpdIdle  == upc = "idle" /\ usrc = NullNode /\ udst = NullNode
            /\ ures = [rv |-> 0, crash |-> FALSE]
TreeIdle == tpc = "idle" /\ tin = <<>> /\ ti = 1 /\ tree = <<>> /\ tstop = {}
            /\ tout = <<>> /\ trc = 0
DigIdle == have = {} /\ dg = <<>> /\ glast = <<>> /\ gcalls = 0
MapIdle == mheap = <<>> /\ mbt = <<>> /\ mfreed = <<>> /\ mlast = <<>> /\ mfound = <<>> /\ mcalls = 0 /\ mown = {}
LoadIdle == lfail = {}
PathIdle == ppath = <<>> /\ pres = <<>>
CmpIdle == cmpa = NullNode /\ cmpb = NullNode /\ cmpd = -2
DrvIdle  == dpc = "idle" /\ argv = [srcs |-> <<>>, dst |-> <<>>] /\ stack = <<>>
            /\ run = 1 /\ clock = 0 /\ fails = 0 /\ fs0 = <<>> /\ exitrc = 0

(***************************************************************************)
(* file_copy step by step (SpecCopy)                                       *)
(***************************************************************************)
Bytes == {0, 1}

RECURSIVE SeqsUpTo(_, _)
SeqsUpTo(S, n) ==
  IF n = 0 THEN {<<>>}
  ELSE LET shorter == SeqsUpTo(S, n - 1)
       IN  shorter \cup {Append(q, x) : q \in {r \in shorter : Len(r) = n - 1}, x \in S}

\* the options as main leaves them with no switch given (pc.c:136-151)
DefaultOptions ==
  /\ f_update = 1 /\ f_force = 0 /\ f_ignore = 0 /\ f_recurse = 0 /\ f_remove = 0
  /\ f_content = 1 /\ f_zero = 0 /\ f_perms = 0 /\ f_owner = 0 /\ f_times = 0
  /\ f_acls = 0 /\ f_attrs = 0 /\ f_flags = 0 /\ f_verbose = 0 /\ f_digest = 0

CopyInit ==
  /\ f_update = 1 /\ f_force = 0 /\ f_ignore = 0 /\ f_recurse = 0 /\ f_remove = 0
  /\ f_content = 1 /\ f_perms = 0 /\ f_owner = 0 /\ f_times = 0 /\ f_acls = 0
  /\ f_attrs = 0 /\ f_flags = 0 /\ f_verbose = 0 /\ f_digest = 0
  /\ f_zero \in {0, 1}
  /\ csrc \in SeqsUpTo(Bytes, MaxLen)
  /\ cpre \in {NoFile, <<1, 1, 1>>}
  /\ cdst = cpre
  /\ cst = CopyLocals
  /\ cpc = "open_src"
  /\ EnvIdle /\ UpdIdle /\ DrvIdle /\ TreeIdle /\ DigIdle /\ MapIdle /\ LoadIdle /\ PathIdle /\ CmpIdle

\* src_fd = open(srcpath, O_RDONLY)
CopyOpenSrc ==
  /\ cpc = "open_src"
  /\ \E err \in BOOLEAN :
       IF err THEN cst' = [cst EXCEPT !.rc = -1] /\ cpc' = "End"
              ELSE cst' = [cst EXCEPT !.src_fd = 3] /\ cpc' = "open_dst"
  /\ UNCHANGED <<csrc, cdst, cpre, optVars, cmpVars, pathVars, loadVars, mapVars, digVars, treeVars, envVars, updVars, drvVars>>

\* dst_fd = open(dstpath, O_WRONLY|O_CREAT|O_TRUNC, mode)
CopyOpenDst ==
  /\ cpc = "open_dst"
  /\ \E err \in BOOLEAN :
       IF err THEN cst' = [cst EXCEPT !.rc = -1] /\ cpc' = "End" /\ cdst' = cdst
              ELSE cst' = [cst EXCEPT !.dst_fd = 4, !.sbytes = 0, !.tbytes = 0]
                   /\ cpc' = "loop" /\ cdst' = <<>>
  /\ UNCHANGED <<csrc, cpre, optVars, cmpVars, pathVars, loadVars, mapVars, digVars, treeVars, envVars, updVars, drvVars>>

\* one read() and the body of the loop, or the read that ends the loop
CopyLoop ==
  /\ cpc = "loop"
  /\ \E rerr \in BOOLEAN, ioerr \in BOOLEAN :
       LET buf == ReadBuf(csrc, cst.spos)
       IN  IF rerr
             THEN /\ ~ioerr
                  /\ cst' = [cst EXCEPT !.rc = -1] /\ cpc' = "End" /\ cdst' = cdst
             ELSE IF Len(buf) = 0
               THEN /\ ~ioerr
                    /\ cst' = [cst EXCEPT !.rc = 0] /\ cpc' = "tail" /\ cdst' = cdst
               ELSE LET r == copy_block(cst, cdst, buf, f_zero # 0, ioerr)
                    IN  cst' = r[1] /\ cdst' = r[2] /\ cpc' = r[3]
  /\ UNCHANGED <<csrc, cpre, optVars, cmpVars, pathVars, loadVars, mapVars, digVars, treeVars, envVars, updVars, drvVars>>

\* rc = sbytes and the explicit last byte
CopyTail ==
  /\ cpc = "tail"
  /\ \E seekerr \in BOOLEAN, writeerr \in BOOLEAN :
       /\ ~(seekerr /\ writeerr)
       /\ (cst.holed = 0 => ~seekerr /\ ~writeerr)
       /\ LET r == copy_tail(cst, cdst, seekerr, writeerr)
          IN  cst' = r[1] /\ cdst' = r[2] /\ cpc' = r[3]
  /\ UNCHANGED <<csrc, cpre, optVars, cmpVars, pathVars, loadVars, mapVars, digVars, treeVars, envVars, updVars, drvVars>>

\* End: close both descriptors and return rc
CopyEnd ==
  /\ cpc = "End"
  /\ cst' = [cst EXCEPT !.src_fd = -1, !.dst_fd = -1]
  /\ cpc' = "done"
  /\ UNCHANGED <<csrc, cdst, cpre, optVars, cmpVars, pathVars, loadVars, mapVars, digVars, treeVars, envVars, updVars, drvVars>>

CopyNext == CopyOpenSrc \/ CopyOpenDst \/ CopyLoop \/ CopyTail \/ CopyEnd

SpecCopy == CopyInit /\ [][CopyNext]_vars

\* the step-by-step copy and file_copy as one call agree on a run with no failure
CopyAgrees ==
  (cpc = "done" /\ cst.rc >= 0) => cdst = file_copy(csrc, cpre, f_zero # 0, "none").dst

(***************************************************************************)
(* C6: a successful file_copy with zero-fill active leaves a destination   *)
(* of the source's length whose bytes read back identical to the source's. *)
(***************************************************************************)
C6_ZeroFillRoundTrip ==
  (cpc = "done" /\ cst.rc >= 0 /\ f_zero = 1) =>
     (Len(cdst) = Len(csrc) /\ cdst = csrc)

(***************************************************************************)
(* node_update on one pair (SpecUpdate): the source object is "a" in the   *)
(* working directory, the destination object is "d/a".                     *)
(***************************************************************************)
USrcPath == <<"a">>
UDstPath == <<"d", "a">>

AttrsAB    == [n \in {"a", "b"} |-> IF n = "a" THEN <<1>> ELSE <<1, 1>>]
AttrsA     == [n \in {"a"} |-> <<1>>]
AttrsExtra == [n \in {"extra"} |-> <<1>>]

\* the calls issued in a log: the calls that can be made to fail
OpsOf(lg) == {lg[i].op : i \in DOMAIN lg}

\* every call of F was issued and failed
Hit(F, lg) == \A k \in F : \E i \in DOMAIN lg : lg[i].op = k /\ ~lg[i].ok

USrcObjs ==
  {[DefObj("reg") EXCEPT !.uid = u, !.gid = g, !.mode = m, !.usr = x, !.sys = AttrsA,
                         !.nfs = "A", !.mtime = 2, !.atime = 2,
                         !.flags = {"uarch", "nodump"}, !.data = <<1>>] :
     u \in {0, 1}, g \in {2}, m \in {2541}, x \in {AttrsAB}}

\* the last one differs from the source in the archive flag only, as far as flags go
UDstObjs ==
  {[DefObj("reg") EXCEPT !.uid = u, !.mode = m, !.usr = x, !.sys = x, !.data = <<1>>] :
     u \in {0, 1}, m \in {420, 2541}, x \in {NoAttrs, AttrsExtra}}
  \cup {[DefObj("reg") EXCEPT !.flags = {"nodump"}, !.data = <<1>>]}

UpdInit ==
  /\ f_update = 1 /\ f_force = 0 /\ f_recurse = 0 /\ f_content = 1 /\ f_zero = 0
  /\ f_verbose = 0 /\ f_digest = 0
  /\ f_owner \in {0, 1} /\ f_perms \in {0, 1} /\ f_attrs \in {0, 1} /\ f_acls \in {0, 1}
  /\ f_times \in {0, 2} /\ f_flags \in {0, 2} /\ f_ignore \in {0, 1} /\ f_remove \in {0, 1}
  /\ cred \in {Root, User}
  /\ suid_clear \in BOOLEAN
  /\ (cred.euid # 0 => suid_clear)
  /\ log = <<>>
  /\ \E so \in USrcObjs, fresh \in BOOLEAN :
       LET base == Put(Put(<<>>, <<"d">>, DefObj("dir")), USrcPath, so)
       IN  IF fresh
             \* the destination was just created by check_new_or_updated: dst_nip is NULL
             THEN /\ fs = Put(base, UDstPath,
                              [DefObj("reg") EXCEPT !.mode = so.mode, !.uid = cred.euid,
                                                    !.mtime = 3, !.atime = 3, !.data = so.data])
                  /\ udst = NullNode
             ELSE \E do \in UDstObjs :
                  /\ fs = Put(base, UDstPath, do)
                  /\ udst = node_get(fs, UDstPath)
  /\ usrc = node_get(fs, USrcPath)
  /\ upc = "call"
  /\ ures = [rv |-> 0, crash |-> FALSE]
  /\ CopyIdle /\ DrvIdle /\ TreeIdle /\ DigIdle /\ MapIdle /\ LoadIdle /\ PathIdle /\ CmpIdle

\* rc = node_update(src_nip, dst_nip, dstpath)
UpdCall ==
  /\ upc = "call"
  /\ \E ub \in {"null", "crash"} :
     \E F \in SUBSET OpsOf(node_update(fs, usrc, udst, UDstPath, {}, ub).log) :
     \E r \in {node_update(fs, usrc, udst, UDstPath, F, ub)} :
       /\ Cardinality(F) <= MaxFail
       /\ Hit(F, r.log)
       /\ (ub = "crash" => r.crash)
       /\ fs' = r.fs
       /\ log' = r.log
       /\ ures' = [rv |-> r.rv, crash |-> r.crash]
  /\ upc' = "done"
  /\ UNCHANGED <<usrc, udst, cred, suid_clear, optVars, cmpVars, pathVars, loadVars, mapVars, digVars, treeVars, copyVars, drvVars>>

UpdNext == UpdCall

SpecUpdate == UpdInit /\ [][UpdNext]_vars

\* node_update ran to its end with no call failing
UpdClean == upc = "done" /\ ~ures.crash /\ \A i \in DOMAIN log : log[i].ok

HasSetuid(mode) == (mode \div 2048) % 2 = 1

(***************************************************************************)
(* C3: owner and mode preservation on, the caller may chown, the source is *)
(* a setuid regular file owned by another user than the destination, and   *)
(* chown clears the setuid bit: after node_update the destination has the  *)
(* source's owner and the setuid bit, whatever mode it had before.         *)
(***************************************************************************)
C3_SetuidAfterChown ==
  (/\ UpdClean /\ f_owner # 0 /\ f_perms # 0 /\ suid_clear
   /\ udst # NullNode
   /\ usrc.type = "reg" /\ HasSetuid(usrc.mode)
   /\ usrc.uid # udst.uid
   /\ (usrc.uid = cred.uid \/ cred.euid = 0))
  => (fs[UDstPath].uid = usrc.uid /\ HasSetuid(fs[UDstPath].mode))

(***************************************************************************)
(* The position of a call on the destination in the order of node_update.  *)
(***************************************************************************)
XattrOps == {"extattr_set_sys", "extattr_delete_sys", "extattr_set_usr", "extattr_delete_usr"}
OpRank(op) ==
  CASE op = "lchown"      -> 1
    [] op = "lchmod"      -> 2
    [] op \in XattrOps    -> 3
    [] op = "acl_set_nfs" -> 4
    [] op = "acl_set_acc" -> 5
    [] op = "acl_set_def" -> 6
    [] op = "utimensat"   -> 7
    [] op = "lchflags"    -> 8
    [] OTHER              -> 0
IsDstOp(e) == e.who = "node_update" /\ OpRank(e.op) > 0

\* owner, mode, extended attributes, ACLs (nfs4, access, default), times, flags
StepOrder(lg) ==
  \A i, j \in DOMAIN lg :
     (i < j /\ IsDstOp(lg[i]) /\ IsDstOp(lg[j])) => OpRank(lg[i].op) <= OpRank(lg[j].op)

(***************************************************************************)
(* C4 as stated: node_update issues its calls on the destination in the    *)
(* order owner, mode, extended attributes (every set before every delete), *)
(* ACLs (nfs4, access, default), times, flags.                             *)
(***************************************************************************)
C4_orig_SetsBeforeDeletes ==
  upc = "done" =>
    /\ StepOrder(log)
    /\ \A i, j \in DOMAIN log :
         (i < j /\ log[i].op \in {"extattr_delete_sys", "extattr_delete_usr"})
           => log[j].op \notin {"extattr_set_sys", "extattr_set_usr"}

(***************************************************************************)
(* C4 amended: node_update issues its calls on the destination in the      *)
(* order owner, mode, extended attributes, ACLs (nfs4, access, default),   *)
(* times, flags; the attributes go namespace by namespace, system before   *)
(* user, and within one namespace every set precedes every delete.         *)
(***************************************************************************)
C4_UpdateOrder ==
  upc = "done" =>
    /\ StepOrder(log)
    /\ \A i, j \in DOMAIN log :
         i < j =>
           /\ ~(log[i].op = "extattr_delete_sys" /\ log[j].op = "extattr_set_sys")
           /\ ~(log[i].op = "extattr_delete_usr" /\ log[j].op = "extattr_set_usr")
           /\ ~(log[i].op \in {"extattr_set_usr", "extattr_delete_usr"} /\
                log[j].op \in {"extattr_set_sys", "extattr_delete_sys"})

\* a call of node_update that issued a call of every step
C4_Witness ==
  /\ UpdClean
  /\ \A k \in {"lchown", "lchmod", "extattr_set_sys", "extattr_delete_sys",
               "extattr_set_usr", "extattr_delete_usr", "acl_set_nfs", "utimensat",
               "lchflags"} :
        \E i \in DOMAIN log : log[i].op = k

(***************************************************************************)
(* C7: after node_update with attributes enabled on an existing            *)
(* destination, every source attribute is on the destination with the same *)
(* bytes, in each namespace; the destination attributes the source lacks   *)
(* are all kept without expunge and all deleted with it.                   *)
(***************************************************************************)
AttrsReconciled(ns) ==
  LET s  == usrc[ns]
      d0 == udst[ns]
      d  == fs[UDstPath][ns]
  IN  s # NullMap =>
        /\ \A k \in DOMAIN s : k \in DOMAIN d /\ d[k] = s[k]
        /\ d0 # NullMap =>
             \A k \in DOMAIN d0 \ DOMAIN s :
                IF f_remove # 0 THEN k \notin DOMAIN d ELSE k \in DOMAIN d /\ d[k] = d0[k]

C7_AttrsReconciled ==
  (UpdClean /\ f_attrs # 0 /\ udst # NullNode)
    => (AttrsReconciled("sys") /\ AttrsReconciled("usr"))

(***************************************************************************)
(* The driver.                                                             *)
(***************************************************************************)
\* the path of a DIRNODE allocated with dirnode_alloc(NULL)
NullPath == <<"NULL">>

\* strdupcat(path, "/", key), or key when the DIRNODE has no path
PathCat(path, key) == IF path = NullPath THEN <<key>> ELSE Append(path, key)

\* dirnode_add(dnp, path, 1): the nodes of the entries of directory path
\* readdir hands out the names of a directory (in order of name, here); the names
\* node_get fails on, and the names inserted before the first of those
ReadFails(f, path) == {k \in {Base(q) : q \in Children(f, path)} : <<"lstat", Append(path, k)>> \in lfail}
ReadBefore(f, path) ==
  {k \in {Base(q) : q \in Children(f, path)} :
     \A b \in ReadFails(f, path) : NameRank(k) < NameRank(b)}

\* dirnode_add(dnp, path, 1): -1 when opendir fails, -1 with the nodes read so far when
\* node_get fails on a child
dirnode_add_contents(f, path) ==
  IF ~IsDir(f, path) \/ <<"opendir", path>> \in lfail
    THEN [rc |-> -1, nodes |-> <<>>]
    ELSE [rc |-> IF ReadFails(f, path) = {} THEN 0 ELSE -1,
          nodes |-> [k \in ReadBefore(f, path) |-> node_get(f, Append(path, k))]]

\* dirnode_add(dnp, path, 0): the node of path, under its last component
\* dirnode_add(src, "dir/", 0): an operand with a trailing slash (its last name is
\* empty) adds the contents of the directory to the nodes there are; a name that is
\* there already ends the program unless f_ignore is set
dirnode_add_more(nodes, r) ==
  [rc    |-> IF r.rc < 0 \/ (f_ignore = 0 /\ DOMAIN nodes \cap DOMAIN r.nodes # {}) THEN -1 ELSE 0,
   nodes |-> [k \in DOMAIN nodes \cup DOMAIN r.nodes |->
                IF k \in DOMAIN nodes THEN nodes[k] ELSE r.nodes[k]]]

dirnode_add_leaf(f, nodes, path) ==
  IF ~Exists(f, path)
    THEN [rc |-> -1, nodes |-> nodes]
    ELSE [rc |-> 0, nodes |-> Put(nodes, Base(path), node_get(f, path))]

\* the loop of main over its source arguments, from the i-th on
RECURSIVE main_add_srcs(_, _, _, _)
main_add_srcs(f, nodes, srcs, i) ==
  IF i > Len(srcs) THEN [rc |-> 0, nodes |-> nodes]
  ELSE LET r == IF Base(srcs[i]) = ""
                  THEN dirnode_add_more(nodes, dirnode_add_contents(f, Parent(srcs[i])))
                  ELSE dirnode_add_leaf(f, nodes, srcs[i])
       IN  IF r.rc < 0 THEN r ELSE main_add_srcs(f, r.nodes, srcs, i + 1)

(***************************************************************************)
(* One call of dirnode_compare in progress:                                *)
(*   src, dst   the paths of the two DIRNODEs; snodes, dnodes their maps   *)
(*   pass       "src": btree_foreach(src, check_new_or_updated)            *)
(*              "dst": btree_foreach(dst, check_removed); "ret": return    *)
(*   keys, i    the keys of the walk in order, and the one it is at        *)
(*   phase      of the handler on keys[i]: "pre" up to the recursion,      *)
(*              "recurse" the call of dirpair_recurse, "wait" during it,   *)
(*              "post" after it                                            *)
(*   rc         the result of the walk over the source map                 *)
(*   crc        what dirpair_recurse returned                              *)
(*   dn, br     dst_nip and the branch taken by check_new_or_updated       *)
(***************************************************************************)
NewFrame(srcpath, dstpath, snodes, dnodes) ==
  [src |-> srcpath, dst |-> dstpath, snodes |-> snodes, dnodes |-> dnodes,
   pass |-> "src", keys |-> SortKeys(DOMAIN snodes), i |-> 1, phase |-> "pre",
   rc |-> 0, crc |-> 0, dn |-> NullNode, br |-> "none"]

\* dir_compare: both directories are loaded, failures of dirnode_add are not looked at
dir_compare(f, srcpath, dstpath) ==
  NewFrame(srcpath, dstpath,
           dirnode_add_contents(f, srcpath).nodes, dirnode_add_contents(f, dstpath).nodes)

Top       == stack[Len(stack)]
SetTop(fr) == [stack EXCEPT ![Len(stack)] = fr]

\* bnode_walker after the handler returned rv: a non-zero result ends the walk
Advance(fr, rv) ==
  IF rv # 0
    THEN [fr EXCEPT !.i = Len(fr.keys) + 1, !.phase = "pre",
                    !.rc = IF fr.pass = "src" THEN rv ELSE @]
    ELSE [fr EXCEPT !.i = @ + 1, !.phase = "pre"]

\* the calls that change the filesystem
MutOps == {"file_copy", "mkdir", "symlink", "mknod", "mkfifo", "bind", "unlink", "rmdir",
           "lchown", "lchmod", "extattr_set_sys", "extattr_delete_sys",
           "extattr_set_usr", "extattr_delete_usr", "acl_set_nfs", "acl_set_acc",
           "acl_set_def", "utimensat", "lchflags", "lchflags_src"}

\* a line of output, or a mark in the log: nothing changes
Note(u, who, kind, p) == LogOp(u, who, kind, p, Done(u.fs, 0))

\* a call whose failure makes the handler return f_ignore ? 0 : rc
Try(u, who, kind, p, r) ==
  LET u1 == LogOp(u, who, kind, p, r)
  IN  IF ~r.ok THEN Return(u1, IF f_ignore # 0 THEN 0 ELSE -1) ELSE u1

\* the destination file after file_copy returned r
file_copy_put(f, dstpath, mode, t, r) ==
  IF r.rc < 0 THEN Fail(f, "EIO")
  ELSE IF Exists(f, dstpath)
    THEN Done([f EXCEPT ![dstpath].data = r.dst, ![dstpath].mtime = t], r.rc)
    ELSE Done(Touch(Put(f, dstpath, [DefObj("reg") EXCEPT !.mode = mode, !.uid = cred.euid,
                                       !.data = r.dst, !.mtime = t, !.atime = t]),
                    dstpath, t), r.rc)

\* file_copy(srcpath, dstpath, mode) on the filesystem
file_copy_at(f, srcpath, dstpath, mode, t, inj) ==
  LET src   == IF Exists(f, srcpath) /\ f[srcpath].type = "reg" THEN f[srcpath].data ELSE NoFile
      isreg == Exists(f, dstpath) /\ f[dstpath].type = "reg"
      canop == IF Exists(f, dstpath) THEN isreg ELSE ParentOk(f, dstpath)
  IN  file_copy_put(f, dstpath, mode, t,
                    file_copy(src, IF isreg THEN f[dstpath].data ELSE NoFile, f_zero # 0,
                              IF inj \/ ~canop THEN "open_dst" ELSE "none"))

\* rc = unlink(dstpath) and rc = rmdir(dstpath), skipped once the handler has returned
try_unlink(u, who, p, F) ==
  IF u.ret THEN u ELSE Try(u, who, "unlink", p, sys_unlink(u.fs, p, clock, "unlink" \in F))
try_rmdir(u, who, p, F) ==
  IF u.ret THEN u ELSE Try(u, who, "rmdir", p, sys_rmdir(u.fs, p, clock, "rmdir" \in F))

\* node_get(dst_nip, NULL): dst_nip is loaded again from its path
node_refresh(u, dst) ==
  IF u.ret THEN [u |-> u, dn |-> dst]
  ELSE IF Exists(u.fs, dst.p)
    THEN [u |-> u, dn |-> node_get(u.fs, dst.p)]
    ELSE [u |-> Return(u, IF f_ignore # 0 THEN 0 ELSE -1), dn |-> dst]

\* if (rc < 0) return f_ignore ? 0 : rc; r is what node_update did
node_update_rc(u, r) ==
  LET u1 == [u EXCEPT !.fs = r.fs, !.log = u.log \o r.log, !.crash = r.crash]
  IN  IF r.crash THEN [u1 EXCEPT !.ret = TRUE, !.rv = -1]
      ELSE IF r.rv < 0 THEN Return(u1, IF f_ignore # 0 THEN 0 ELSE r.rv)
      ELSE u1

\* rc = node_update(src_nip, dst_nip, dstpath); the call leaves a mark in the log
call_node_update(u, src, dst, dstpath, F, ub) ==
  IF u.ret THEN u
  ELSE node_update_rc(Note(u, "check_new_or_updated", "node_update", dstpath),
                      node_update(u.fs, src, dst, dstpath, F, ub))

\* the object of the source's type is made at dstpath
cnu_create(u, src, dstpath, F) ==
  LET who == "check_new_or_updated"
  IN  IF u.ret THEN u
      ELSE CASE src.type = "reg" ->
             IF f_content # 0
               THEN Try(u, who, "file_copy", dstpath,
                        file_copy_at(u.fs, src.p, dstpath, src.mode, clock, "file_copy" \in F))
               ELSE u
        [] src.type = "dir" ->
             Try(u, who, "mkdir", dstpath, sys_mkdir(u.fs, dstpath, src.mode, clock, "mkdir" \in F))
        [] src.type = "lnk" ->
             Try(u, who, "symlink", dstpath, sys_symlink(u.fs, src.l, dstpath, clock, "symlink" \in F))
        [] src.type \in {"blk", "chr"} ->
             Try(u, who, "mknod", dstpath,
                 sys_mknod(u.fs, dstpath, src.type, src.mode, src.dev, clock, "mknod" \in F))
        [] src.type = "fifo" ->
             Try(u, who, "mkfifo", dstpath,
                 sys_mknod(u.fs, dstpath, "fifo", src.mode, 0, clock, "mkfifo" \in F))
        [] src.type = "sock" ->
             Try(u, who, "bind", dstpath,
                 sys_mknod(u.fs, dstpath, "sock", src.mode, 0, clock, "bind" \in F))
        [] OTHER -> u

\* the branch "dir -> non-dir" taken for a plain change of type
Branch_no_fromdir(src, dst) ==
  IF dst = NullNode THEN "new"
  ELSE IF src.type # dst.type
    THEN (IF src.type = "dir" THEN "todir" ELSE "retype")
    ELSE "same"

\* the branch "non-dir -> dir" taken for a plain change of type
Branch_no_todir(src, dst) ==
  IF dst = NullNode THEN "new"
  ELSE IF src.type # dst.type
    THEN (IF dst.type = "dir" THEN "fromdir" ELSE "retype")
    ELSE "same"

\* which branch of check_new_or_updated a pair takes
Branch(src, dst) ==
  IF dst = NullNode THEN "new"
  ELSE IF src.type # dst.type
    THEN (IF src.type = "dir" THEN "todir"
          ELSE IF dst.type = "dir" THEN "fromdir" ELSE "retype")
    ELSE "same"

\* what the first part of check_new_or_updated hands on
cnu_next(rf, br, next) == [u |-> rf.u, dn |-> rf.dn, br |-> br, next |-> next]

(***************************************************************************)
(* check_new_or_updated up to the point where it may call dirpair_recurse. *)
(* Returns the state u, dst_nip (dn), the branch and what comes next.      *)
(***************************************************************************)
cnu_pre(u0, fr, key, F) ==
  LET who     == "check_new_or_updated"
      src     == fr.snodes[key]
      dstpath == PathCat(fr.dst, key)
      dst     == IF key \in DOMAIN fr.dnodes THEN fr.dnodes[key] ELSE NullNode
      br      == Branch(src, dst)
      u       == Note(u0, who, "enter", dstpath)
  IN  CASE br = "new" ->
             LET u1 == IF f_verbose # 0 THEN Note(u, who, "print+", dstpath) ELSE u
             IN  cnu_next([u  |-> IF f_update # 0 THEN cnu_create(u1, src, dstpath, F)
                                                  ELSE u1,
                           dn |-> dst],
                          br, IF f_recurse # 0 /\ src.type = "dir" THEN "recurse" ELSE "post")
        [] br = "todir" ->
             LET u1 == IF f_verbose # 0
                         THEN Note(Note(u, who, "print-", dstpath), who, "print+", dstpath)
                         ELSE u
             IN  cnu_next(IF f_update = 0
                            THEN [u |-> u1, dn |-> dst]
                            ELSE node_refresh(cnu_create(try_unlink(u1, who, dstpath, F),
                                                         src, dstpath, F),
                                              dst),
                          br, IF f_recurse # 0 THEN "recurse" ELSE "post")
        [] br = "fromdir" ->
             [u |-> u, dn |-> dst, br |-> br,
              next |-> IF f_recurse # 0 THEN "recurse" ELSE "post"]
        [] br = "retype" ->
             [u |-> u, dn |-> dst, br |-> br, next |-> "post"]
        [] OTHER ->
             [u |-> u, dn |-> dst, br |-> br,
              next |-> IF f_recurse # 0 /\ dst.type = "dir" THEN "recurse" ELSE "post"]

\* the branches "dir -> non-dir" (sigil "-", "+", rmdir) and "non-dir -> non-dir" ("*", unlink)
cnu_replace(u0, src, dst, dstpath, F, ub) ==
  LET who == "check_new_or_updated"
      u1  == IF f_verbose = 0 THEN u0
             ELSE IF dst.type = "dir"
               THEN Note(Note(u0, who, "print-", dstpath), who, "print+", dstpath)
               ELSE Note(u0, who, "print*", dstpath)
  IN  IF f_update = 0 THEN [u |-> u1, dn |-> dst]
      ELSE node_refresh(
             call_node_update(
               cnu_create(IF dst.type = "dir" THEN try_rmdir(u1, who, dstpath, F)
                                              ELSE try_unlink(u1, who, dstpath, F),
                          src, dstpath, F),
               src, dst, dstpath, F, ub),
             dst)

\* cnu_content copying a regular file on any divergence
cnu_content_any_divergence(u, src, dstpath, d, F) ==
  IF src.type = "reg" /\ f_content # 0
    THEN cnu_create(u, src, dstpath, F)
  ELSE IF src.type = "lnk" /\ (f_force # 0 \/ d < 0 \/ AndMask(d, LinkMask))
    THEN cnu_create(try_unlink(u, "check_new_or_updated", dstpath, F), src, dstpath, F)
  ELSE IF src.type \in {"blk", "chr"}
    THEN cnu_create(try_unlink(u, "check_new_or_updated", dstpath, F), src, dstpath, F)
  ELSE u

\* the content of a same-type pair with divergence mask d: a regular file is copied,
\* a symbolic link or a device is removed and made again
cnu_content(u, src, dstpath, d, F) ==
  IF src.type = "reg" /\ f_content # 0 /\ (f_force # 0 \/ d < 0 \/ AndMask(d, ContentMask))
    THEN cnu_create(u, src, dstpath, F)
  ELSE IF src.type = "lnk" /\ (f_force # 0 \/ d < 0 \/ AndMask(d, LinkMask))
    THEN cnu_create(try_unlink(u, "check_new_or_updated", dstpath, F), src, dstpath, F)
  ELSE IF src.type \in {"blk", "chr"}
    THEN cnu_create(try_unlink(u, "check_new_or_updated", dstpath, F), src, dstpath, F)
  ELSE u

\* the branch "object is same type" with d = node_compare(src_nip, dst_nip)
cnu_same_d(u0, src, dst, dstpath, F, ub, d) ==
  LET who == "check_new_or_updated"
      u1  == IF f_force # 0 THEN u0
             ELSE Note(u0, who, IF d = 0 THEN "compare_same" ELSE "compare_differ", dstpath)
      u2  == IF f_verbose # 0 THEN Note(u1, who, "print!", dstpath) ELSE u1
  IN  IF ~(f_force # 0 \/ d # 0) THEN [u |-> u1, dn |-> dst]
      ELSE IF f_update = 0 THEN [u |-> u2, dn |-> dst]
      ELSE node_refresh(
             call_node_update(cnu_content(u2, src, dstpath, d, F), src, dst, dstpath, F, ub),
             dst)

\* the branch "object is same type", after the recursion
cnu_same(u0, src, dst, dstpath, F, ub) ==
  cnu_same_d(u0, src, dst, dstpath, F, ub, IF f_force # 0 THEN 0 ELSE node_compare(src, dst))

(***************************************************************************)
(* check_new_or_updated from the return of dirpair_recurse (fr.crc, 0 when *)
(* it was not called) to its end.                                          *)
(***************************************************************************)
cnu_post(u0, fr, key, F, ub) ==
  LET src     == fr.snodes[key]
      dstpath == PathCat(fr.dst, key)
      dst     == fr.dn
  IN  IF fr.crc < 0
        THEN [u |-> Return(u0, IF f_ignore # 0 THEN 0 ELSE fr.crc), dn |-> dst]
      ELSE IF fr.br \in {"new", "todir"}
        THEN [u |-> IF f_update # 0
                      THEN call_node_update(u0, src, dst, dstpath, F, ub)
                      ELSE u0,
              dn |-> dst]
      ELSE IF fr.br \in {"fromdir", "retype"}
        THEN cnu_replace(u0, src, dst, dstpath, F, ub)
      ELSE cnu_same(u0, src, dst, dstpath, F, ub)

(***************************************************************************)
(* check_removed, up to dirpair_recurse and after it                       *)
(***************************************************************************)
rem_pre(u0, fr, key) ==
  LET dst == fr.dnodes[key]
      u   == Note(u0, "check_removed", "enter", dst.p)
  IN  IF key \in DOMAIN fr.snodes
        THEN [u |-> Return(u, 0), next |-> "return"]
        ELSE [u |-> u, next |-> IF f_recurse # 0 /\ dst.type = "dir" THEN "recurse" ELSE "post"]

\* check_removed removing whatever f_update is
rem_post_always_update(u0, fr, key, F) ==
  LET who == "check_removed"
      dst == fr.dnodes[key]
      u1  == IF f_verbose # 0 THEN Note(u0, who, "print-", dst.p) ELSE u0
  IN  IF fr.crc < 0 THEN Return(u0, IF f_ignore # 0 THEN 0 ELSE fr.crc)
      ELSE IF dst.type = "dir" THEN try_rmdir(u1, who, dst.p, F)
      ELSE try_unlink(u1, who, dst.p, F)

rem_post(u0, fr, key, F) ==
  LET who == "check_removed"
      dst == fr.dnodes[key]
      u1  == IF f_verbose # 0 THEN Note(u0, who, "print-", dst.p) ELSE u0
  IN  IF fr.crc < 0 THEN Return(u0, IF f_ignore # 0 THEN 0 ELSE fr.crc)
      ELSE IF f_update = 0 THEN u1
      ELSE IF dst.type = "dir" THEN try_rmdir(u1, who, dst.p, F)
      ELSE try_unlink(u1, who, dst.p, F)

(***************************************************************************)
(* The actions of the driver (Spec)                                        *)
(***************************************************************************)
\* the sets of calls of one step that are made to fail: first run only
FailSets(lg) ==
  IF run = 1
    THEN {F \in SUBSET (OpsOf(lg) \cap MutOps) : Cardinality(F) <= MaxFail - fails}
    ELSE {{}}

\* dst_nip is the node in the destination map: a refresh shows there
StoreDn(fr, key, dn) ==
  [fr EXCEPT !.dn = dn,
             !.dnodes = IF key \in DOMAIN @ /\ dn # NullNode THEN [@ EXCEPT ![key] = dn] ELSE @]

\* main: the source arguments are added one by one, then the contents of the destination
Main ==
  /\ dpc = "main"
  /\ LET s == main_add_srcs(fs, <<>>, argv.srcs, 1)
         d == dirnode_add_contents(fs, argv.dst)
     IN  IF s.rc < 0 \/ d.rc < 0
           THEN dpc' = "exit" /\ exitrc' = 1 /\ stack' = <<>>
           ELSE dpc' = "run" /\ exitrc' = exitrc
                /\ stack' = <<NewFrame(NullPath, argv.dst, s.nodes, d.nodes)>>
  /\ UNCHANGED <<argv, run, clock, fails, fs0, envVars, optVars, cmpVars, pathVars, loadVars, mapVars, digVars, treeVars, copyVars, updVars>>

\* check_new_or_updated(key, src_nip, xd), first part
SrcPre ==
  /\ dpc = "run" /\ stack # <<>>
  /\ Top.pass = "src" /\ Top.phase = "pre" /\ Top.i <= Len(Top.keys)
  /\ LET fr  == Top
         key == fr.keys[fr.i]
     IN  \E F \in FailSets(cnu_pre(UState(fs), fr, key, {}).u.log) :
         \E r \in {cnu_pre(UState(fs), fr, key, F)} :
           LET f2 == [StoreDn(fr, key, r.dn) EXCEPT !.br = r.br, !.crc = 0]
           IN  /\ Hit(F, r.u.log)
               /\ fs' = r.u.fs
               /\ log' = log \o r.u.log
               /\ fails' = fails + Cardinality(F)
               /\ stack' = SetTop(IF r.u.ret THEN Advance(f2, r.u.rv)
                                             ELSE [f2 EXCEPT !.phase = r.next])
  /\ UNCHANGED <<dpc, argv, run, clock, fs0, exitrc, cred, suid_clear,
                 optVars, cmpVars, pathVars, loadVars, mapVars, digVars, treeVars, copyVars, updVars>>

\* dirpair_recurse(xd, key): dir_compare on the two paths extended by key
DirpairRecurse ==
  /\ dpc = "run" /\ stack # <<>>
  /\ Top.phase = "recurse"
  /\ LET fr  == Top
         key == fr.keys[fr.i]
     IN  stack' = Append(SetTop([fr EXCEPT !.phase = "wait"]),
                         dir_compare(fs, PathCat(fr.src, key), PathCat(fr.dst, key)))
  /\ UNCHANGED <<dpc, argv, run, clock, fails, fs0, exitrc, envVars,
                 optVars, cmpVars, pathVars, loadVars, mapVars, digVars, treeVars, copyVars, updVars>>

\* check_new_or_updated, second part
SrcPost ==
  /\ dpc = "run" /\ stack # <<>>
  /\ Top.pass = "src" /\ Top.phase = "post"
  /\ LET fr  == Top
         key == fr.keys[fr.i]
     IN  \E ub \in {"null", "crash"} :
         \E F \in FailSets(cnu_post(UState(fs), fr, key, {}, ub).u.log) :
         \E r \in {cnu_post(UState(fs), fr, key, F, ub)} :
           /\ Hit(F, r.u.log)
           /\ (ub = "crash" => r.u.crash)
           /\ fs' = r.u.fs
           /\ log' = log \o r.u.log
           /\ fails' = fails + Cardinality(F)
           /\ dpc' = IF r.u.crash THEN "crash" ELSE dpc
           /\ stack' = SetTop(Advance(StoreDn(fr, key, r.dn),
                                      IF r.u.ret THEN r.u.rv ELSE 0))
  /\ UNCHANGED <<argv, run, clock, fs0, exitrc, cred, suid_clear,
                 optVars, cmpVars, pathVars, loadVars, mapVars, digVars, treeVars, copyVars, updVars>>

\* check_removed(key, dst_nip, xd), first part
RemPre ==
  /\ dpc = "run" /\ stack # <<>>
  /\ Top.pass = "dst" /\ Top.phase = "pre" /\ Top.i <= Len(Top.keys)
  /\ LET fr  == Top
         key == fr.keys[fr.i]
         f2  == [fr EXCEPT !.crc = 0]
     IN  \E r \in {rem_pre(UState(fs), fr, key)} :
           /\ log' = log \o r.u.log
           /\ stack' = SetTop(IF r.u.ret THEN Advance(f2, r.u.rv)
                                         ELSE [f2 EXCEPT !.phase = r.next])
  /\ UNCHANGED <<dpc, argv, run, clock, fails, fs0, exitrc, fs, cred, suid_clear,
                 optVars, cmpVars, pathVars, loadVars, mapVars, digVars, treeVars, copyVars, updVars>>

\* check_removed, second part
RemPost ==
  /\ dpc = "run" /\ stack # <<>>
  /\ Top.pass = "dst" /\ Top.phase = "post"
  /\ LET fr  == Top
         key == fr.keys[fr.i]
     IN  \E F \in FailSets(rem_post(UState(fs), fr, key, {}).log) :
         \E u \in {rem_post(UState(fs), fr, key, F)} :
           /\ Hit(F, u.log)
           /\ fs' = u.fs
           /\ log' = log \o u.log
           /\ fails' = fails + Cardinality(F)
           /\ stack' = SetTop(Advance(fr, IF u.ret THEN u.rv ELSE 0))
  /\ UNCHANGED <<dpc, argv, run, clock, fs0, exitrc, cred, suid_clear,
                 optVars, cmpVars, pathVars, loadVars, mapVars, digVars, treeVars, copyVars, updVars>>

\* dirnode_compare with the removal walk whatever f_remove is
dirnode_compare_always_remove(fr) ==
  IF fr.pass = "src"
    THEN [fr EXCEPT !.pass = "dst", !.keys = SortKeys(DOMAIN fr.dnodes), !.i = 1]
    ELSE [fr EXCEPT !.pass = "ret"]

\* dirnode_compare when a walk has ended: the walk over the destination map follows the
\* walk over the source map if f_remove, whatever rc is; then it returns rc
dirnode_compare(fr) ==
  IF fr.pass = "src" /\ f_remove # 0
    THEN [fr EXCEPT !.pass = "dst", !.keys = SortKeys(DOMAIN fr.dnodes), !.i = 1]
    ELSE [fr EXCEPT !.pass = "ret"]

PassEnd ==
  /\ dpc = "run" /\ stack # <<>>
  /\ Top.pass \in {"src", "dst"} /\ Top.phase = "pre" /\ Top.i > Len(Top.keys)
  /\ stack' = SetTop(dirnode_compare(Top))
  /\ UNCHANGED <<dpc, argv, run, clock, fails, fs0, exitrc, envVars,
                 optVars, cmpVars, pathVars, loadVars, mapVars, digVars, treeVars, copyVars, updVars>>

\* return rc: from dir_compare to the handler that called dirpair_recurse, or from main
CompareReturn ==
  /\ dpc = "run" /\ stack # <<>>
  /\ Top.pass = "ret"
  /\ IF Len(stack) = 1
       THEN dpc' = "exit" /\ exitrc' = Top.rc /\ stack' = <<>>
       ELSE /\ dpc' = dpc /\ exitrc' = exitrc
            /\ stack' = [SubSeq(stack, 1, Len(stack) - 1) EXCEPT
                           ![Len(stack) - 1] = [@ EXCEPT !.crc = Top.rc, !.phase = "post"]]
  /\ UNCHANGED <<argv, run, clock, fails, fs0, envVars, optVars, cmpVars, pathVars, loadVars, mapVars, digVars, treeVars, copyVars, updVars>>

\* the program is run again with the same arguments, after a first run where no call failed
SecondRun ==
  /\ dpc = "exit" /\ run = 1 /\ f_update # 0
  /\ exitrc = 0 /\ \A i \in DOMAIN log : log[i].ok
  /\ dpc' = "main" /\ run' = 2 /\ clock' = clock + 1
  /\ log' = <<>> /\ fails' = 0 /\ fs0' = fs
  /\ UNCHANGED <<argv, stack, exitrc, fs, cred, suid_clear, optVars, cmpVars, pathVars, loadVars, mapVars, digVars, treeVars, copyVars, updVars>>

(***************************************************************************)
(* The trees the driver starts from: "a" and "b" in the working directory  *)
(* are the sources, "d" is the destination.                                *)
(***************************************************************************)
SrcReg(data, t) == [DefObj("reg") EXCEPT !.data = data, !.mtime = t, !.atime = t, !.usr = AttrsAB]
DstReg(data, t) == [DefObj("reg") EXCEPT !.data = data, !.mtime = t, !.atime = t, !.usr = AttrsExtra]
DirObj(t)       == [DefObj("dir") EXCEPT !.mode = 493, !.mtime = t, !.atime = t]
LnkObj(target)  == [DefObj("lnk") EXCEPT !.mode = 493, !.link = target]

\* a link target that fills the whole buffer of node_get
LongTarget == [i \in 1..LinkBuf |-> i]

\* "a" against "d/a"
PairShapes ==
  { {<< <<"a">>, SrcReg(<<1>>, 1) >>},
    {<< <<"a">>, SrcReg(<<1, 1>>, 2) >>, << <<"d", "a">>, DstReg(<<1>>, 1) >>},
    {<< <<"a">>, SrcReg(<<1>>, 1) >>,    << <<"d", "a">>, DstReg(<<1>>, 1) >>},
    {<< <<"a">>, SrcReg(<<1, 1>>, 1) >>, << <<"d", "a">>, DstReg(<<1>>, 1) >>},
    {<< <<"a">>, DirObj(1) >>, << <<"a", "c">>, SrcReg(<<1>>, 1) >>},
    {<< <<"a">>, DirObj(1) >>, << <<"a", "c">>, SrcReg(<<1>>, 1) >>,
     << <<"d", "a">>, DirObj(2) >>, << <<"d", "a", "extra">>, DstReg(<<1>>, 1) >>},
    {<< <<"a">>, DirObj(1) >>, << <<"a", "c">>, SrcReg(<<1>>, 1) >>,
     << <<"d", "a">>, DstReg(<<1>>, 1) >>},
    {<< <<"a">>, SrcReg(<<1>>, 1) >>,
     << <<"d", "a">>, DirObj(2) >>, << <<"d", "a", "extra">>, DstReg(<<1>>, 1) >>},
    {<< <<"a">>, LnkObj(<<1>>) >>, << <<"d", "a">>, DstReg(<<1>>, 1) >>},
    {<< <<"a">>, LnkObj(<<1>>) >>, << <<"d", "a">>, LnkObj(<<2>>) >>},
    {<< <<"a">>, LnkObj(LongTarget) >>},
    {<< <<"a">>, DirObj(1) >>, << <<"a", "c">>, SrcReg(<<1>>, 1) >>,
     << <<"d", "a">>, DirObj(2) >>, << <<"d", "a", "c">>, DirObj(1) >>},
    {<< <<"a">>, DirObj(1) >>, << <<"a", "c">>, SrcReg(<<1>>, 1) >>,
     << <<"a", "foo">>, SrcReg(<<1>>, 1) >>,
     << <<"d", "a">>, DirObj(1) >>, << <<"d", "a", "c">>, DstReg(<<1>>, 1) >>,
     << <<"d", "a", "foo">>, DstReg(<<1>>, 1) >>} }

\* "d/extra", a name the sources do not have
ExtraShapes ==
  { {<< <<"d", "extra">>, DstReg(<<1>>, 1) >>},
    {<< <<"d", "extra">>, DirObj(1) >>},
    {<< <<"d", "extra">>, DirObj(1) >>, << <<"d", "extra", "foo">>, DstReg(<<1>>, 1) >>} }

\* the source "b" has the archive flag and one more flag set
BaseShape ==
  {<< <<"d">>, DirObj(1) >>,
   << <<"b">>, [SrcReg(<<1>>, 1) EXCEPT !.flags = {"uarch", "nodump"}] >>}

TreeOf(entries) ==
  [p \in {e[1] : e \in entries} |-> (CHOOSE e \in entries : e[1] = p)[2]]

\* the switches besides -n, -r, -x, -i: none, -f, -tt, -X, -tt -X, -F, -FF
ModeSwitches ==
  {<<0, 0, 0, 0>>, <<1, 0, 0, 0>>, <<0, 2, 0, 0>>, <<0, 0, 1, 0>>, <<0, 2, 1, 0>>,
   <<0, 0, 0, 1>>, <<0, 0, 0, 2>>}

\* "pc a b d"
PlainArgv == [srcs |-> << <<"a">>, <<"b">> >>, dst |-> <<"d">>]

\* the start of the driver but for the trees, the operands and the loads that fail
DrvBoot ==
  /\ f_update \in {0, 1} /\ f_recurse \in {0, 1} /\ f_remove \in {0, 1} /\ f_ignore \in {0, 1}
  /\ \E m \in ModeSwitches :
       f_force = m[1] /\ f_times = m[2] /\ f_attrs = m[3] /\ f_flags = m[4]
  /\ f_content = 1 /\ f_zero = 0 /\ f_perms = 0 /\ f_owner = 0 /\ f_acls = 0
  /\ f_verbose = 1 /\ f_digest = 0
  /\ cred = User /\ suid_clear = TRUE /\ log = <<>>
  /\ stack = <<>> /\ dpc = "main" /\ run = 1 /\ clock = 3 /\ fails = 0 /\ exitrc = 0
  /\ CopyIdle /\ UpdIdle /\ TreeIdle /\ DigIdle /\ MapIdle /\ PathIdle /\ CmpIdle

\* the start of the driver but for its operands and the loads that fail
DrvStart ==
  /\ DrvBoot
  /\ \E ps \in PairShapes, es \in ExtraShapes : fs = TreeOf(BaseShape \cup ps \cup es)
  /\ fs0 = fs

\* every load works
DrvInit == DrvStart /\ argv = PlainArgv /\ lfail = {}

\* SpecLoad: an operand that does not exist ("n"), a directory opendir refuses
\* (EACCES), a child lstat fails on; run with the plain switches
LoadCases ==
  {[argv |-> [PlainArgv EXCEPT !.dst = <<"n">>], lfail |-> {}],
   [argv |-> [PlainArgv EXCEPT !.srcs = << <<"a">>, <<"n">> >>], lfail |-> {}],
   [argv |-> PlainArgv, lfail |-> {<<"opendir", <<"a">> >>}],
   [argv |-> PlainArgv, lfail |-> {<<"opendir", <<"d", "a">> >>}],
   [argv |-> PlainArgv, lfail |-> {<<"lstat", <<"a", "c">> >>}],
   [argv |-> PlainArgv, lfail |-> {<<"lstat", <<"a", "foo">> >>}]}
LoadInit ==
  /\ DrvStart
  /\ f_force = 0 /\ f_times = 0 /\ f_attrs = 0 /\ f_flags = 0
  /\ \E lc \in LoadCases : argv = lc.argv /\ lfail = lc.lfail

DrvNext ==
  \/ Main \/ SrcPre \/ DirpairRecurse \/ SrcPost \/ RemPre \/ RemPost
  \/ PassEnd \/ CompareReturn \/ SecondRun

Spec == DrvInit /\ [][DrvNext]_vars

SpecLoad == LoadInit /\ [][DrvNext]_vars

\* SpecPrefix: the source operand is a directory that is not in the working directory,
\* "x/a", or the contents of one, "x/"; the working directory may have an "a" of its own
PrefixShapes ==
  { {},
    {<< <<"a">>, DirObj(1) >>, << <<"a", "foo">>, SrcReg(<<1>>, 1) >>},
    {<< <<"d", "a">>, DirObj(1) >>, << <<"d", "a", "c">>, DstReg(<<1, 1>>, 1) >>,
     << <<"d", "a", "extra">>, DirObj(1) >>} }
PrefixBase ==
  {<< <<"d">>, DirObj(1) >>, << <<"b">>, SrcReg(<<1>>, 1) >>, << <<"d", "extra">>, DstReg(<<1>>, 1) >>,
   << <<"x">>, DirObj(1) >>, << <<"x", "a">>, DirObj(1) >>, << <<"x", "a", "c">>, SrcReg(<<1>>, 2) >>}
PrefixInit ==
  /\ DrvBoot
  /\ f_force = 0 /\ f_times = 0 /\ f_attrs = 0 /\ f_flags = 0
  /\ \E ps \in PrefixShapes : fs = TreeOf(PrefixBase \cup ps)
  /\ fs0 = fs
  /\ lfail = {}
  /\ argv \in {[srcs |-> << <<"x", "a">>, <<"b">> >>, dst |-> <<"d">>],
               [srcs |-> << <<"x", "">>, <<"b">> >>, dst |-> <<"d">>],
               PlainArgv}

SpecPrefix == PrefixInit /\ [][DrvNext]_vars

(***************************************************************************)
(* SpecMeta: the driver on devices and on pairs that differ in metadata,   *)
(* with the owner, mode and ACL switches; no call is made to fail.  The    *)
(* destination directory is on the filesystem of the sources (st_dev 0)    *)
(* or on another one (st_dev 1).                                           *)
(***************************************************************************)
ChrObj(rdev, t) == [DefObj("chr") EXCEPT !.rdev = rdev, !.mtime = t, !.atime = t,
                                         !.usr = AttrsA, !.acc = "A"]
MetaReg(data, t) == [DefObj("reg") EXCEPT !.data = data, !.mtime = t, !.atime = t,
                                          !.usr = AttrsA, !.acc = "A"]
\* MetaReg(data, t) of another owner, ACL, attribute and flag
OtherMeta(data, t) == [MetaReg(data, t) EXCEPT !.uid = 2, !.gid = 2, !.acc = "B",
                                               !.usr = AttrsExtra, !.flags = {"nodump"}]

\* "a" against "d/a"
MetaPairs ==
  { {<< <<"a">>, ChrObj(1, 1) >>},
    {<< <<"a">>, ChrObj(1, 1) >>, << <<"d", "a">>, ChrObj(2, 1) >>},
    {<< <<"a">>, ChrObj(1, 1) >>, << <<"d", "a">>, ChrObj(1, 1) >>},
    {<< <<"a">>, ChrObj(1, 1) >>, << <<"d", "a">>, ChrObj(1, 2) >>},
    {<< <<"a">>, MetaReg(<<1>>, 1) >>, << <<"d", "a">>, OtherMeta(<<1>>, 1) >>},
    {<< <<"a">>, MetaReg(<<1, 1>>, 1) >>, << <<"d", "a">>, MetaReg(<<1>>, 1) >>},
    {<< <<"a">>, [LnkObj(<<1>>) EXCEPT !.usr = AttrsA] >>, << <<"d", "a">>, MetaReg(<<1>>, 1) >>},
    {<< <<"a">>, MetaReg(<<1>>, 1) >>,
     << <<"d", "a">>, DirObj(1) >>, << <<"d", "a", "extra">>, DstReg(<<1>>, 1) >>},
    {<< <<"a">>, ChrObj(1, 1) >>, << <<"d", "a">>, MetaReg(<<1>>, 1) >>} }

MetaBase ==
  {<< <<"d">>, DirObj(1) >>, << <<"b">>, SrcReg(<<1>>, 1) >>,
   << <<"d", "extra">>, DstReg(<<1>>, 1) >>}

\* the tree of the entries, the destination directory and all below it on filesystem ddev
MetaTree(entries, ddev) ==
  [p \in {e[1] : e \in entries} |->
     [(CHOOSE e \in entries : e[1] = p)[2] EXCEPT !.dev = IF p[1] = "d" THEN ddev ELSE 0]]

\* -f, content, -o, -p, -t, -A, -X, -F
MetaSwitches ==
  {<<0, 1, 0, 0, 0, 0, 0, 0>>, <<1, 1, 0, 0, 0, 0, 0, 0>>, <<0, 0, 0, 0, 2, 0, 0, 0>>,
   <<0, 1, 1, 0, 0, 0, 0, 0>>, <<0, 1, 0, 1, 0, 0, 0, 0>>, <<0, 1, 0, 0, 1, 0, 0, 0>>,
   <<0, 1, 0, 0, 2, 0, 0, 0>>, <<0, 1, 0, 0, 0, 1, 0, 0>>, <<0, 1, 0, 0, 0, 0, 1, 0>>,
   <<0, 1, 0, 0, 0, 0, 0, 1>>, <<0, 1, 1, 1, 2, 1, 1, 1>>}

MetaInit ==
  /\ f_update = 1 /\ f_ignore = 0 /\ f_recurse \in {0, 1} /\ f_remove \in {0, 1}
  /\ \E m \in MetaSwitches :
       /\ f_force = m[1] /\ f_content = m[2] /\ f_owner = m[3] /\ f_perms = m[4]
       /\ f_times = m[5] /\ f_acls = m[6] /\ f_attrs = m[7] /\ f_flags = m[8]
  /\ f_zero = 0 /\ f_verbose = 1 /\ f_digest = 0
  /\ cred \in {Root, User} /\ suid_clear = TRUE /\ log = <<>>
  /\ stack = <<>> /\ dpc = "main" /\ run = 1 /\ clock = 3 /\ fails = MaxFail /\ exitrc = 0
  /\ \E ps \in MetaPairs, ddev \in {0, 1} : fs = MetaTree(MetaBase \cup ps, ddev)
  /\ fs0 = fs /\ argv = PlainArgv /\ lfail = {}
  /\ CopyIdle /\ UpdIdle /\ TreeIdle /\ DigIdle /\ MapIdle /\ PathIdle /\ CmpIdle

SpecMeta == MetaInit /\ [][DrvNext]_vars

(***************************************************************************)
(* What the driver's properties speak of.                                  *)
(***************************************************************************)
\* the source path a destination path stands for: "d/x/y" is the copy of "x/y"
SrcOf(p)   == Tail(p)
IsDst(p)   == Len(p) >= 2 /\ p[1] = "d"
\* a destination name the source does not have, when the run started
DstOnly(p) == IsDst(p) /\ p \in DOMAIN fs0 /\ SrcOf(p) \notin DOMAIN fs0
Ended      == dpc \in {"exit", "crash"}
AllOk      == \A i \in DOMAIN log : log[i].ok

(***************************************************************************)
(* C1: after one complete run with update enabled, a second run with the   *)
(* same options changes nothing in the filesystem and every node_compare   *)
(* it evaluates returns 0.                                                 *)
(***************************************************************************)
C1_Idempotent ==
  run = 2 =>
    /\ fs = fs0
    /\ \A i \in DOMAIN log : log[i].op \notin MutOps /\ log[i].op # "compare_differ"

(***************************************************************************)
(* C2: with f_update = 0 no step of a run issues a call that changes the   *)
(* filesystem, and no step of node_update is issued, whatever the other    *)
(* options are and whatever branch a name takes.                           *)
(***************************************************************************)
C2_DryRunNoMutation ==
  f_update = 0 =>
    /\ fs = fs0
    /\ \A i \in DOMAIN log :
         log[i].op \notin MutOps /\ log[i].who # "node_update" /\ log[i].op # "node_update"

\* a dry run with force, expunge and recurse that reported a new name, a changed one,
\* a changed type and a removed one
C2_Witness ==
  /\ f_update = 0 /\ f_force # 0 /\ f_remove # 0 /\ f_recurse # 0 /\ dpc = "exit"
  /\ \E i \in DOMAIN log : log[i].op = "print+"
  /\ \E i \in DOMAIN log : log[i].op = "print!"
  /\ \E i \in DOMAIN log : log[i].op = "print-" /\ log[i].who = "check_new_or_updated"
  /\ \E i \in DOMAIN log : log[i].op = "print-" /\ log[i].who = "check_removed"

(***************************************************************************)
(* C5: a source directory that the destination lacks, with update, recurse *)
(* and times >= 2: at the end of the run the new destination directory has *)
(* the mtime of the source directory.                                      *)
(***************************************************************************)
C5_NewDirMtime ==
  (/\ Ended /\ AllOk /\ f_update # 0 /\ f_recurse # 0 /\ f_times >= 2
   /\ IsDir(fs0, <<"a">>) /\ <<"d", "a">> \notin DOMAIN fs0)
  => (/\ IsDir(fs, <<"d", "a">>)
      /\ fs[<<"d", "a">>].mtime = fs[<<"a">>].mtime)

(***************************************************************************)
(* C8: with f_remove off check_removed never runs and a destination name   *)
(* the source lacks is neither removed nor reported; with f_remove on the  *)
(* walk over the destination follows the walk over the source of the same  *)
(* directory, removes only names the source lacks, and removes every such  *)
(* name it visits when no call fails.                                      *)
(***************************************************************************)
C8_RemovalPass ==
  /\ f_remove = 0 =>
       /\ \A i \in DOMAIN log : log[i].who # "check_removed"
       /\ \A p \in DOMAIN fs0 : DstOnly(p) =>
            /\ p \in DOMAIN fs
            /\ \A i \in DOMAIN log :
                 log[i].path = p => log[i].op \notin {"unlink", "rmdir", "print-"}
  /\ f_remove # 0 =>
       /\ \A i, j \in DOMAIN log :
            (i < j /\ log[i].who = "check_removed" /\ log[j].who = "check_new_or_updated"
                   /\ log[j].op = "enter")
              => Parent(log[i].path) # Parent(log[j].path)
       /\ \A i \in DOMAIN log :
            (log[i].who = "check_removed" /\ log[i].op \in {"unlink", "rmdir", "print-"})
              => DstOnly(log[i].path)
       /\ (dpc = "exit" /\ AllOk /\ f_update # 0) =>
            /\ \A p \in DOMAIN fs0 : (DstOnly(p) /\ Len(p) = 2) => p \notin DOMAIN fs
            /\ \A i \in DOMAIN log :
                 (log[i].who = "check_removed" /\ log[i].op = "enter" /\ DstOnly(log[i].path))
                   => log[i].path \notin DOMAIN fs

\* a run with f_remove that removed a name the source lacks, after the walk over the source
C8_Witness ==
  /\ f_remove # 0 /\ f_update # 0 /\ dpc = "exit" /\ AllOk
  /\ \E i, j \in DOMAIN log :
       /\ i < j
       /\ log[i].who = "check_new_or_updated" /\ log[i].op = "enter"
       /\ log[j].who = "check_removed" /\ log[j].op = "unlink"
       /\ Parent(log[i].path) = Parent(log[j].path)
       /\ log[j].path \notin DOMAIN fs

(***************************************************************************)
(* C9: with expunge on and recurse off no rmdir is issued for a            *)
(* destination directory the source lacks.                                 *)
(***************************************************************************)
C9_NoRmdirWithoutRecurse ==
  (f_remove # 0 /\ f_recurse = 0) =>
    \A i \in DOMAIN log : ~(log[i].who = "check_removed" /\ log[i].op = "rmdir")

(***************************************************************************)
(* C10: with ignore off, once a call of the walk over the source of a      *)
(* directory has failed, the walk over the destination of that directory   *)
(* is not started.                                                         *)
(***************************************************************************)
C10_NoRemovalAfterFailure ==
  f_ignore = 0 =>
    \A i, j \in DOMAIN log :
       (i < j /\ ~log[i].ok /\ log[i].who # "check_removed")
         => ~(log[j].who = "check_removed" /\ Parent(log[j].path) = Parent(log[i].path))

\* a call failed that makes its handler give up: the calls on extended attributes are
\* left out, node_update does not look at their result
Aborted == \E i \in DOMAIN log : ~log[i].ok /\ log[i].op \notin XattrOps

(***************************************************************************)
(* C11: the value main returns is 0 when no operation aborted, and is      *)
(* non-zero when an operation aborted with ignore off, in the walk over    *)
(* the source, in the removal walk, or in a nested directory.              *)
(***************************************************************************)
C11_ExitCode ==
  dpc = "exit" =>
    /\ (~Aborted => exitrc = 0)
    /\ ((Aborted /\ f_ignore = 0) => exitrc # 0)

(***************************************************************************)
(* The ordered map (btree.c), SpecTree: the names of a directory are       *)
(* inserted in the order readdir hands them out, then btree_foreach walks  *)
(* the tree.  A key is a string, as the sequence of its bytes.             *)
(***************************************************************************)
\* number of names enumerated, length of the longest name, the bytes of a name
MaxKeys   == 3
MaxKeyLen == 2
KeyBytes  == {97, 98}

\* strcmp: the difference of the first two bytes that differ, the end of a string is 0
RECURSIVE strcmp_from(_, _, _)
strcmp_from(a, b, i) ==
  LET ca == IF i <= Len(a) THEN a[i] ELSE 0
      cb == IF i <= Len(b) THEN b[i] ELSE 0
  IN  IF ca # cb THEN ca - cb
      ELSE IF ca = 0 THEN 0
      ELSE strcmp_from(a, b, i + 1)
strcmp(a, b) == strcmp_from(a, b, 1)

\* btree_insert from node pos on: left when kcmp < 0, right when > 0, EEXIST when 0
RECURSIVE bnode_insert(_, _, _)
bnode_insert(t, pos, key) ==
  IF pos \notin DOMAIN t
    THEN [rc |-> 0, tree |-> [q \in DOMAIN t \cup {pos} |-> IF q = pos THEN key ELSE t[q]]]
  ELSE IF strcmp(key, t[pos]) < 0 THEN bnode_insert(t, Append(pos, "l"), key)
  ELSE IF strcmp(key, t[pos]) > 0 THEN bnode_insert(t, Append(pos, "r"), key)
  ELSE [rc |-> -1, tree |-> t]
btree_insert(t, key) == bnode_insert(t, <<>>, key)

\* rc = fun(n->key, n->val, extra), not called once the walk has ended
bnode_visit(w, key, stop) ==
  IF w.rc # 0 THEN w
  ELSE [rc |-> IF key \in stop THEN 1 ELSE 0, out |-> Append(w.out, key)]

RECURSIVE bnode_walker(_, _, _, _)
\* bnode_walker handing the node to the handler before its left subtree
bnode_walker_preorder(t, pos, w, stop) ==
  IF w.rc # 0 \/ pos \notin DOMAIN t THEN w
  ELSE bnode_walker(t, Append(pos, "r"),
                    bnode_walker(t, Append(pos, "l"), bnode_visit(w, t[pos], stop), stop),
                    stop)

\* bnode_walker: the left subtree, the node, the right subtree; a non-zero rc ends it
bnode_walker(t, pos, w, stop) ==
  IF w.rc # 0 \/ pos \notin DOMAIN t THEN w
  ELSE bnode_walker(t, Append(pos, "r"),
                    bnode_visit(bnode_walker(t, Append(pos, "l"), w, stop), t[pos], stop),
                    stop)
btree_foreach(t, stop) == bnode_walker(t, <<>>, [rc |-> 0, out |-> <<>>], stop)

KeySet == UNION {[1..n -> KeyBytes] : n \in 1..MaxKeyLen}

TreeInit ==
  /\ DefaultOptions
  /\ tin \in UNION {[1..n -> KeySet] : n \in 1..MaxKeys}
  /\ tstop \in {{}, {tin[1]}, {tin[Len(tin)]}}
  /\ tpc = "insert" /\ ti = 1 /\ tree = <<>> /\ tout = <<>> /\ trc = 0
  /\ CopyIdle /\ EnvIdle /\ UpdIdle /\ DrvIdle /\ DigIdle /\ MapIdle /\ LoadIdle /\ PathIdle /\ CmpIdle

\* btree_insert(dnp->nodes, strdup(dep->d_name), nip), one entry of the directory
TreeInsert ==
  /\ tpc = "insert" /\ ti <= Len(tin)
  /\ \E r \in {btree_insert(tree, tin[ti])} :
       tree' = r.tree /\ trc' = r.rc
  /\ ti' = ti + 1
  /\ UNCHANGED <<tpc, tin, tstop, tout, optVars, cmpVars, pathVars, loadVars, mapVars, digVars, copyVars, envVars, updVars, drvVars>>

\* the directory is read to its end
TreeLoaded ==
  /\ tpc = "insert" /\ ti > Len(tin)
  /\ tpc' = "walk"
  /\ UNCHANGED <<tin, ti, tree, tstop, tout, trc, optVars, cmpVars, pathVars, loadVars, mapVars, digVars, copyVars, envVars, updVars, drvVars>>

\* rc = btree_foreach(nodes, fun, extra)
TreeWalk ==
  /\ tpc = "walk"
  /\ \E w \in {btree_foreach(tree, tstop)} :
       tout' = w.out /\ trc' = w.rc
  /\ tpc' = "done"
  /\ UNCHANGED <<tin, ti, tree, tstop, optVars, cmpVars, pathVars, loadVars, mapVars, digVars, copyVars, envVars, updVars, drvVars>>

TreeNext == TreeInsert \/ TreeLoaded \/ TreeWalk

SpecTree == TreeInit /\ [][TreeNext]_vars

\* the names of tin
TreeKeys == {tin[i] : i \in DOMAIN tin}

(***************************************************************************)
(* C12: whatever the order in which the names of a directory were          *)
(* enumerated and inserted, the walk hands them to its handler in          *)
(* ascending strcmp order, each name once, and all of them when the        *)
(* handler never ends the walk.                                            *)
(***************************************************************************)
C12_WalkSorted ==
  tpc = "done" =>
    /\ \A i, j \in DOMAIN tout : i < j => strcmp(tout[i], tout[j]) < 0
    /\ {tout[i] : i \in DOMAIN tout} \subseteq TreeKeys
    /\ \A k \in TreeKeys :
         (\A i \in DOMAIN tout : tout[i] # k) =>
            \E i \in DOMAIN tout : tout[i] \in tstop /\ strcmp(tout[i], k) < 0

\* three names inserted as b, a, c (here "b", "a", "ab") and visited a, ab, b
C12_Witness ==
  /\ tpc = "done" /\ tstop = {}
  /\ tin = << <<98>>, <<97>>, <<97, 98>> >>
  /\ tout = << <<97>>, <<97, 98>>, <<98>> >>

\* the indices of the log where who issued op on path p
LogAt(who, op, p) == {i \in DOMAIN log : log[i].who = who /\ log[i].op = op /\ log[i].path = p}
\* every index of S comes before every index of T
Before(S, T) == \A i \in S, j \in T : i < j
\* "a" is a directory and "d/a" is not one, when the run started
ToDirCase ==
  /\ f_update # 0 /\ f_recurse # 0 /\ f_verbose # 0
  /\ IsDir(fs0, <<"a">>) /\ <<"d", "a">> \in DOMAIN fs0 /\ ~IsDir(fs0, <<"d", "a">>)

(***************************************************************************)
(* C13: a directory in the source against a non-directory in the           *)
(* destination, with update and recurse: the destination is unlinked, the  *)
(* directory is made, its children are processed and node_update is called *)
(* on it, in this order; one "-" line and one "+" line are printed for the *)
(* name and the destination object is replaced once.                       *)
(***************************************************************************)
C13_ToDirOrder ==
  ToDirCase =>
    LET who   == "check_new_or_updated"
        p     == <<"d", "a">>
        minus == LogAt(who, "print-", p)
        plus  == LogAt(who, "print+", p)
        unl   == LogAt(who, "unlink", p)
        mkd   == LogAt(who, "mkdir", p)
        upd   == LogAt(who, "node_update", p)
        kids  == {i \in DOMAIN log : Len(log[i].path) = 3 /\ Parent(log[i].path) = p}
    IN  /\ Before(minus, plus) /\ Before(plus, unl) /\ Before(unl, mkd)
        /\ Before(mkd, kids) /\ Before(kids, upd) /\ Before(mkd, upd)
        /\ \A S \in {minus, plus, unl, mkd, upd} : Cardinality(S) <= 1
        /\ \A i \in DOMAIN log :
             log[i].path = p => log[i].op \notin {"rmdir", "file_copy", "symlink", "mknod", "print*", "print!"}
        /\ (dpc = "exit" /\ AllOk) =>
             /\ \A S \in {minus, plus, unl, mkd, upd} : Cardinality(S) = 1
             /\ kids # {}
             /\ IsDir(fs, p)

\* such a run ended: the child "d/a/c" was made between the mkdir and the node_update of "d/a"
C13_Witness ==
  /\ ToDirCase /\ dpc = "exit" /\ AllOk /\ run = 1
  /\ \E i \in LogAt("check_new_or_updated", "mkdir", <<"d", "a">>),
        j \in LogAt("check_new_or_updated", "file_copy", <<"d", "a", "c">>),
        k \in LogAt("check_new_or_updated", "node_update", <<"d", "a">>) : i < j /\ j < k

\* the pairs of a source path and its destination path in the trees the driver starts from
PairPaths == { << <<"a">>, <<"d", "a">> >>, << <<"a", "c">>, <<"d", "a", "c">> >> }
\* the source s is not a directory and the destination p is one, when the run started
FromDirCase(s, p) ==
  /\ f_update # 0 /\ run = 1
  /\ s \in DOMAIN fs0 /\ ~IsDir(fs0, s) /\ IsDir(fs0, p)
\* the indices of the log where the object of the source's type was made at p
MadeAt(p) == {i \in DOMAIN log : log[i].who = "check_new_or_updated" /\ log[i].path = p
                                  /\ log[i].op \in {"file_copy", "symlink", "mknod", "mkfifo", "bind"}}
\* the indices of the log about the names inside the directory p
KidsOf(p) == {i \in DOMAIN log : Len(log[i].path) = Len(p) + 1 /\ Parent(log[i].path) = p}
\* p, or a path below p
AtOrBelow(q, p) == Len(q) >= Len(p) /\ SubSeq(q, 1, Len(p)) = p

FromDirOrder(s, p) ==
  LET who  == "check_new_or_updated"
      rmd  == LogAt(who, "rmdir", p)
      made == MadeAt(p)
      upd  == LogAt(who, "node_update", p)
      kids == KidsOf(p)
  IN  /\ Before(kids, rmd) /\ Before(rmd, made) /\ Before(made, upd) /\ Before(rmd, upd)
      /\ \A S \in {rmd, made, upd} : Cardinality(S) <= 1
      /\ \A i \in DOMAIN log : log[i].path = p => log[i].op \notin {"unlink", "mkdir", "print*"}
      \* the children are looked at only with recurse, and removed only with the remove policy
      /\ kids # {} => f_recurse # 0
      /\ \A i \in kids : log[i].op \in MutOps => f_remove # 0
      /\ (f_recurse # 0 /\ f_remove # 0) =>
           \A i \in rmd : \A q \in DOMAIN fs0 :
             (Len(q) = Len(p) + 1 /\ Parent(q) = p) => \E k \in kids : log[k].path = q /\ k < i
      \* a failed rmdir: nothing is made, nothing at or below p is touched again, what was
      \* removed stays removed, and the run ends with an error unless errors are ignored
      /\ \A i \in rmd : ~log[i].ok =>
           /\ made = {} /\ upd = {}
           /\ \A j \in DOMAIN log :
                (j > i /\ AtOrBelow(log[j].path, p)) => log[j].op \notin MutOps \cup {"node_update"}
           /\ IsDir(fs, p)
           /\ \A k \in kids : (log[k].op = "unlink" /\ log[k].ok) => log[k].path \notin DOMAIN fs
           /\ (dpc = "exit" /\ f_ignore = 0) => exitrc # 0
      \* a run that came to the name and ended without a failed call replaced the directory
      /\ (dpc = "exit" /\ AllOk /\ LogAt(who, "enter", p) # {}) =>
           /\ \A S \in {rmd, made, upd} : Cardinality(S) = 1
           /\ fs[p].type = fs0[s].type

C14_FailedRmdir ==
  /\ FromDirCase(<<"a">>, <<"d", "a">>) /\ dpc = "exit"
  /\ \E k \in LogAt("check_removed", "unlink", <<"d", "a", "extra">>),
        i \in LogAt("check_new_or_updated", "rmdir", <<"d", "a">>) :
          k < i /\ log[k].ok /\ ~log[i].ok

\* the source "a" was a symbolic link when the run started, and the driver made "d/a" for it
LinkMade ==
  /\ run = 1 /\ <<"a">> \in DOMAIN fs0 /\ fs0[<<"a">>].type = "lnk"
  /\ \E i \in LogAt("check_new_or_updated", "symlink", <<"d", "a">>) : log[i].ok

(***************************************************************************)
(* C15: a source symbolic link is never followed: whenever the driver      *)
(* makes the destination for it (missing, of another type, or with another *)
(* target), the destination is a symbolic link whose target has the bytes  *)
(* of the source's target, whatever the target is.                         *)
(***************************************************************************)
C15_SymlinkTarget ==
  LinkMade =>
    /\ fs[<<"a">>] = fs0[<<"a">>]
    /\ \A i \in DOMAIN log : log[i].path = <<"d", "a">> => log[i].op # "file_copy"
    /\ <<"d", "a">> \in DOMAIN fs
    /\ fs[<<"d", "a">>].type = "lnk"
    /\ fs[<<"d", "a">>].link = fs[<<"a">>].link

\* the same for the targets that fit the buffer of node_get with one byte to spare
C15_ShortTargets ==
  (LinkMade /\ Len(fs0[<<"a">>].link) < LinkBuf) =>
    /\ fs[<<"a">>] = fs0[<<"a">>]
    /\ \A i \in DOMAIN log : log[i].path = <<"d", "a">> => log[i].op # "file_copy"
    /\ <<"d", "a">> \in DOMAIN fs
    /\ fs[<<"d", "a">>].type = "lnk"
    /\ fs[<<"d", "a">>].link = fs[<<"a">>].link

\* a link was made again because the targets differed
C15_Remade ==
  /\ LinkMade /\ dpc = "exit" /\ <<"d", "a">> \in DOMAIN fs0 /\ fs0[<<"d", "a">>].type = "lnk"

\* a path of a source tree: the destination tree is "d"
IsSrcPath(p) == p[1] # "d"
\* the object without its archive flag
NoArchive(o) == [o EXCEPT !.flags = @ \ {"uarch"}]

(***************************************************************************)
(* C16: a run issues no mutating operation on a source path, except for    *)
(* clearing the archive flag of a source object, which happens only when   *)
(* the level of f_flags is above 1; at the levels 0 and 1 no source object *)
(* is modified.                                                            *)
(***************************************************************************)
C16_SourceUntouched ==
  /\ \A i \in DOMAIN log :
       (IsSrcPath(log[i].path) /\ log[i].op \in MutOps) =>
          (log[i].op = "lchflags_src" /\ f_flags > 1)
  /\ {p \in DOMAIN fs : IsSrcPath(p)} = {p \in DOMAIN fs0 : IsSrcPath(p)}
  /\ \A p \in DOMAIN fs0 :
       IsSrcPath(p) =>
         /\ NoArchive(fs[p]) = NoArchive(fs0[p])
         /\ fs[p].flags \subseteq fs0[p].flags
         /\ (f_flags <= 1 => fs[p] = fs0[p])

\* a run at level 2 cleared the archive flag of "b" and nothing else of it
C16_Witness ==
  /\ dpc = "exit" /\ run = 1 /\ f_flags = 2
  /\ \E i \in LogAt("node_update", "lchflags_src", <<"b">>) : log[i].ok
  /\ fs0[<<"b">>].flags = {"uarch", "nodump"} /\ fs[<<"b">>].flags = {"nodump"}

\* a run at level 1 that set the flags of "d/b" ended
C16_LevelOne ==
  /\ dpc = "exit" /\ run = 1 /\ f_flags = 1
  /\ \E i \in LogAt("node_update", "lchflags", <<"d", "b">>) : log[i].ok

(***************************************************************************)
(* C17: the archive flag of a source object is cleared only after the      *)
(* replication of that object succeeded: once any step of node_update has  *)
(* failed, with ignore on or off, the flag is left set.                    *)
(***************************************************************************)
C17_ArchiveAfterSuccess ==
  upc = "done" =>
    \A i \in DOMAIN log :
      log[i].op = "lchflags_src" => \A j \in 1..(i - 1) : log[j].ok

\* the same with ignore off: a failed call on an extended attribute goes unnoticed
C17_IgnoreOff ==
  (upc = "done" /\ f_ignore = 0) =>
    \A i \in DOMAIN log :
      log[i].op = "lchflags_src" => \A j \in 1..(i - 1) : log[j].ok

\* node_update set the flags of the destination
FlagsApplied ==
  /\ upc = "done"
  /\ \E i \in DOMAIN log : log[i].op = "lchflags" /\ log[i].path = UDstPath /\ log[i].ok

(***************************************************************************)
(* C18: the flags node_update applies to the destination are the source's  *)
(* flags without the archive flag: the destination does not get the        *)
(* archive flag because the source has it, and a difference in the archive *)
(* flag alone causes no update of the destination's flags.                 *)
(***************************************************************************)
C18_FlagsWithoutArchive ==
  /\ FlagsApplied => fs[UDstPath].flags = usrc.flags \ {"uarch"}
  /\ (upc = "done" /\ udst # NullNode /\ usrc.flags \ {"uarch"} = udst.flags \ {"uarch"}) =>
        \A i \in DOMAIN log : log[i].op # "lchflags"

\* the second half alone
C18_ArchiveOnlyDifference ==
  (upc = "done" /\ udst # NullNode /\ usrc.flags \ {"uarch"} = udst.flags \ {"uarch"}) =>
     /\ \A i \in DOMAIN log : log[i].op # "lchflags"
     /\ fs[UDstPath].flags = udst.flags

\* node_update ran with flags on, on a pair that differs in the archive flag only
C18_ArchiveOnlyReached ==
  /\ upc = "done" /\ f_flags # 0 /\ ~ures.crash /\ udst # NullNode
  /\ usrc.flags # udst.flags /\ usrc.flags \ {"uarch"} = udst.flags \ {"uarch"}

\* the call at index i of the log failed in a way that counts as a failure of the step:
\* lchown failing with EPERM is let through
StepFailed(i) == ~log[i].ok /\ ~(log[i].op = "lchown" /\ log[i].errno = "EPERM")

(***************************************************************************)
(* C19: with ignore off node_update returns a non-zero status as soon as a *)
(* step fails (owner other than EPERM, mode, setting or deleting an        *)
(* extended attribute, ACL, times, flags) and issues no later step; it     *)
(* returns 0 only if every step it attempted succeeded.                    *)
(***************************************************************************)
C19_FirstFailureReturns ==
  (upc = "done" /\ f_ignore = 0 /\ ~ures.crash) =>
    /\ \A i \in DOMAIN log : StepFailed(i) => (i = Len(log) /\ ures.rv # 0)
    /\ ures.rv = 0 => \A i \in DOMAIN log : ~StepFailed(i)

\* the same, the calls on extended attributes left aside
C19_OtherSteps ==
  (upc = "done" /\ f_ignore = 0 /\ ~ures.crash) =>
    /\ \A i \in DOMAIN log :
         (StepFailed(i) /\ log[i].op \notin XattrOps) => (i = Len(log) /\ ures.rv # 0)
    /\ ures.rv = 0 => \A i \in DOMAIN log : StepFailed(i) => log[i].op \in XattrOps

\* with ignore off a step other than the extended attributes failed
C19_OtherStepFailed ==
  /\ upc = "done" /\ f_ignore = 0 /\ ~ures.crash
  /\ \E i \in DOMAIN log : StepFailed(i) /\ log[i].op \in {"lchmod", "utimensat", "lchflags"}

\* the times step and the two halves of the flags step have something to do on the pair
TimesDue ==
  f_times > 1 /\ (udst = NullNode \/ usrc.mtime # udst.mtime \/ usrc.atime # udst.atime)
FlagsDue ==
  f_flags # 0 /\ (udst = NullNode \/ usrc.flags \ {"uarch"} # udst.flags \ {"uarch"})
SrcFlagsDue == f_flags > 1 /\ "uarch" \in usrc.flags
\* the call op is issued after index i of the log
IssuedAfter(i, op) == \E j \in DOMAIN log : j > i /\ log[j].op = op
\* after the failure at index i the steps that follow it are still issued
GoesOn(i) ==
  /\ (OpRank(log[i].op) < 7 /\ TimesDue) => IssuedAfter(i, "utimensat")
  /\ (OpRank(log[i].op) < 8 /\ FlagsDue) => IssuedAfter(i, "lchflags")
  /\ (log[i].op # "lchflags_src" /\ SrcFlagsDue) => IssuedAfter(i, "lchflags_src")

(***************************************************************************)
(* C20: with ignore on, after a step of node_update fails the function     *)
(* goes on through every remaining step (a failure of the times step does  *)
(* not skip the flags step) and returns the last recorded error: a         *)
(* non-zero status whenever a step failed, even if later steps succeeded.  *)
(***************************************************************************)
C20_IgnoreGoesOn ==
  (upc = "done" /\ f_ignore = 1 /\ ~ures.crash) =>
    /\ \A i \in DOMAIN log : StepFailed(i) => GoesOn(i)
    /\ (\E i \in DOMAIN log : StepFailed(i)) => ures.rv # 0

\* going on, for a failure of the owner, mode or ACL step when the times and flags calls succeed
C20_EarlyStepsGoOn ==
  (/\ upc = "done" /\ f_ignore = 1 /\ ~ures.crash
   /\ \A k \in DOMAIN log : log[k].op \in {"utimensat", "lchflags", "lchflags_src"} => log[k].ok) =>
    \A i \in DOMAIN log :
      (StepFailed(i) /\ log[i].op \in {"lchown", "lchmod", "acl_set_nfs", "acl_set_acc",
                                        "acl_set_def"}) => GoesOn(i)

\* the status, when the times and the flags steps issue no call
C20_StatusWithoutTimesFlags ==
  (upc = "done" /\ f_ignore = 1 /\ ~ures.crash /\ f_times = 0 /\ f_flags = 0) =>
    ((\E i \in DOMAIN log : StepFailed(i) /\ log[i].op \notin XattrOps) => ures.rv # 0)

\* the mode step failed and the times and flags steps were issued after it
C20_WentOn ==
  /\ upc = "done" /\ f_ignore = 1 /\ ~ures.crash
  /\ \E i \in DOMAIN log : log[i].op = "lchmod" /\ ~log[i].ok
                            /\ IssuedAfter(i, "utimensat") /\ IssuedAfter(i, "lchflags")


\* the times step failed: node_update returned 0 at once, the flags step due was not issued
C20_TimesSkipsFlags ==
  /\ upc = "done" /\ f_ignore = 1 /\ ~ures.crash /\ FlagsDue /\ ures.rv = 0
  /\ log # <<>> /\ log[Len(log)].op = "utimensat" /\ ~log[Len(log)].ok

\* the mode step failed, the times step succeeded after it, and node_update returned 0
C20_ErrorForgotten ==
  /\ upc = "done" /\ f_ignore = 1 /\ ~ures.crash /\ ures.rv = 0
  /\ \E i \in DOMAIN log : log[i].op = "lchmod" /\ ~log[i].ok
  /\ \E i \in DOMAIN log : log[i].op = "utimensat" /\ log[i].ok
  /\ \A i \in DOMAIN log : log[i].op # "lchmod" => log[i].ok


(***************************************************************************)
(* C21: when file_copy fails, at whatever point (opening either file,      *)
(* reading, seeking, writing), the destination file is as it was before,   *)
(* or it has length zero from the truncating open; it never holds a part   *)
(* of the source.                                                          *)
(***************************************************************************)
C21_FailedCopyDefined ==
  (cpc = "done" /\ cst.rc < 0) => (cdst = cpre \/ cdst = <<>>)

\* the same for the failures before the first block is written
C21_EarlyFailures ==
  (cpc = "done" /\ cst.rc < 0 /\ cst.tbytes = 0) => (cdst = cpre \/ cdst = <<>>)

\* an open failed, and a read failed right after the truncating open
C21_OpenFailed == cpc = "done" /\ cst.rc < 0 /\ cst.dst_fd = -1 /\ cdst = cpre /\ cpre # NoFile


(***************************************************************************)
(* The digest instance (digest.c, SpecDigest).  The build provides the     *)
(* algorithms of `have'; ADLER32 and SKEIN256 stand for the ten types.     *)
(*   type   DIGEST_TYPE_...      state   DIGEST_STATE_...                  *)
(*   ctx    the union of contexts: adler32 as <<low half, high half>>,     *)
(*          skein256 as whether it was initialised and the bytes taken in  *)
(***************************************************************************)
\* number of calls made on the instance
MaxCalls == 4
DigestAlgos == {"ADLER32", "SKEIN256"}
DigestTags  == {"INVALID", "NONE"} \cup DigestAlgos
DIGEST_BUFSIZE_ADLER32  == 4
DIGEST_BUFSIZE_SKEIN256 == 32
DIGEST_BUFSIZE_MAX      == 64

\* memset(dp, 0, sizeof(*dp)): DIGEST_TYPE_NONE = 0, DIGEST_STATE_NONE = 0
ZeroDigest == [type |-> "NONE", state |-> "NONE",
               ctx |-> [adler32 |-> <<0, 0>>, skein256 |-> [init |-> FALSE, len |-> 0]]]

\* zlib's adler32_z: 1 for a null buffer, else the two sums modulo 65521
RECURSIVE adler32_sum(_, _)
adler32_sum(adler, buf) ==
  IF buf = <<>> THEN adler
  ELSE LET s1 == (adler[1] + Head(buf)) % 65521
       IN  adler32_sum(<<s1, (adler[2] + s1) % 65521>>, Tail(buf))
adler32_z(adler, buf) == IF buf = NULL THEN <<1, 0>> ELSE adler32_sum(adler, buf)

\* what a call hands back: the instance, the value returned, errno if set, the output buffer
DigestRet(dp, rc, errno, out) == [dp |-> dp, rc |-> rc, errno |-> errno, out |-> out]

\* digest_init: the switch looks at dp->type, just cleared, not at the parameter type
digest_init(dp, type) ==
  IF type = "INVALID" THEN DigestRet(dp, -1, "", <<>>)
  ELSE LET z == ZeroDigest
           t == z.type
       IN  IF t = "NONE"
             THEN DigestRet([z EXCEPT !.type = type, !.state = "INIT"], 0, "", <<>>)
           ELSE IF t = "ADLER32"
             THEN IF "ADLER32" \in have
                    THEN DigestRet([z EXCEPT !.ctx.adler32 = adler32_z(<<0, 0>>, NULL),
                                             !.type = type, !.state = "INIT"], 0, "", <<>>)
                    ELSE DigestRet(z, -1, "ENOSYS", <<>>)
           ELSE IF t = "SKEIN256"
             THEN IF "SKEIN256" \in have
                    THEN DigestRet([z EXCEPT !.ctx.skein256 = [init |-> TRUE, len |-> 0],
                                             !.type = type, !.state = "INIT"], 0, "", <<>>)
                    ELSE DigestRet(z, -1, "ENOSYS", <<>>)
           ELSE DigestRet(z, -1, "EINVAL", <<>>)

\* digest_update taking the bytes in whatever the state is
digest_update_any_state(dp, buf) ==
  IF dp.type = "NONE" THEN DigestRet([dp EXCEPT !.state = "UPDATE"], 0, "", <<>>)
  ELSE IF dp.type \notin have THEN DigestRet(dp, -1, "ENOSYS", <<>>)
  ELSE IF dp.type = "ADLER32"
    THEN DigestRet([dp EXCEPT !.ctx.adler32 = adler32_z(@, buf), !.state = "UPDATE"], 0, "", <<>>)
    ELSE DigestRet([dp EXCEPT !.ctx.skein256.len = @ + Len(buf), !.state = "UPDATE"], 0, "", <<>>)

digest_update(dp, buf) ==
  IF dp.state \in {"INIT", "UPDATE"}
    THEN IF dp.type = "NONE" THEN DigestRet([dp EXCEPT !.state = "UPDATE"], 0, "", <<>>)
         ELSE IF dp.type = "ADLER32"
           THEN IF "ADLER32" \in have
                  THEN DigestRet([dp EXCEPT !.ctx.adler32 = adler32_z(@, buf),
                                            !.state = "UPDATE"], 0, "", <<>>)
                  ELSE DigestRet(dp, -1, "ENOSYS", <<>>)
         ELSE IF dp.type = "SKEIN256"
           THEN IF "SKEIN256" \in have
                  THEN DigestRet([dp EXCEPT !.ctx.skein256.len = @ + Len(buf),
                                            !.state = "UPDATE"], 0, "", <<>>)
                  ELSE DigestRet(dp, -1, "ENOSYS", <<>>)
         ELSE DigestRet(dp, -1, "EINVAL", <<>>)
    ELSE DigestRet(dp, -1, "", <<>>)

\* digest_final: the result is the context as the algorithm writes it out
digest_final(dp, bufsize) ==
  IF dp.state \in {"NONE", "FINAL"} THEN DigestRet(dp, -1, "EINVAL", <<>>)
  ELSE IF dp.state \notin {"INIT", "UPDATE"} THEN DigestRet(dp, -1, "EINVAL", <<>>)
  ELSE IF dp.type = "INVALID" THEN DigestRet(dp, -1, "EINVAL", <<>>)
  ELSE IF dp.type = "NONE" THEN DigestRet([dp EXCEPT !.state = "FINAL"], 0, "", <<>>)
  ELSE IF dp.type = "ADLER32"
    THEN IF bufsize < DIGEST_BUFSIZE_ADLER32 THEN DigestRet(dp, -1, "EOVERFLOW", <<>>)
         ELSE IF "ADLER32" \in have
           THEN DigestRet([dp EXCEPT !.state = "FINAL"], DIGEST_BUFSIZE_ADLER32, "",
                          <<dp.ctx.adler32[2], dp.ctx.adler32[1]>>)
           ELSE DigestRet(dp, -1, "ENOSYS", <<>>)
  ELSE IF bufsize < DIGEST_BUFSIZE_SKEIN256 THEN DigestRet(dp, -1, "EOVERFLOW", <<>>)
       ELSE IF "SKEIN256" \in have
         THEN DigestRet([dp EXCEPT !.state = "FINAL"], DIGEST_BUFSIZE_SKEIN256, "",
                        <<IF dp.ctx.skein256.init THEN 1 ELSE 0, dp.ctx.skein256.len>>)
         ELSE DigestRet(dp, -1, "ENOSYS", <<>>)

\* digest_destroy: a last digest_final, then the instance is cleared
digest_destroy(dp) == DigestRet(ZeroDigest, 0, "", <<>>)

\* the record of a call
DigestCall(op, tag, r) ==
  [op |-> op, tag |-> tag, rc |-> r.rc, errno |-> r.errno, out |-> r.out, pre |-> dg]

DigestStart ==
  /\ DefaultOptions
  /\ have \in SUBSET DigestAlgos
  /\ dg = ZeroDigest
  /\ glast = [op |-> "none", tag |-> "NONE", rc |-> 0, errno |-> "", out |-> <<>>,
              pre |-> ZeroDigest]
  /\ gcalls = 0
  /\ CopyIdle /\ EnvIdle /\ UpdIdle /\ DrvIdle /\ TreeIdle /\ MapIdle /\ LoadIdle /\ PathIdle /\ CmpIdle

DigestInit ==
  /\ gcalls < MaxCalls
  /\ \E tag \in DigestTags : \E r \in {digest_init(dg, tag)} :
       dg' = r.dp /\ glast' = DigestCall("init", tag, r)
  /\ gcalls' = gcalls + 1
  /\ UNCHANGED <<have, optVars, cmpVars, pathVars, loadVars, mapVars, copyVars, envVars, updVars, drvVars, treeVars>>

DigestUpdate ==
  /\ gcalls < MaxCalls
  /\ \E buf \in {<<>>, <<1>>, <<2, 1>>} : \E r \in {digest_update(dg, buf)} :
       dg' = r.dp /\ glast' = DigestCall("update", dg.type, r)
  /\ gcalls' = gcalls + 1
  /\ UNCHANGED <<have, optVars, cmpVars, pathVars, loadVars, mapVars, copyVars, envVars, updVars, drvVars, treeVars>>

DigestFinal ==
  /\ gcalls < MaxCalls
  /\ \E bufsize \in {0, DIGEST_BUFSIZE_MAX} : \E r \in {digest_final(dg, bufsize)} :
       dg' = r.dp /\ glast' = [DigestCall("final", dg.type, r) EXCEPT !.tag = dg.type]
  /\ gcalls' = gcalls + 1
  /\ UNCHANGED <<have, optVars, cmpVars, pathVars, loadVars, mapVars, copyVars, envVars, updVars, drvVars, treeVars>>

DigestDestroy ==
  /\ gcalls < MaxCalls
  /\ \E r \in {digest_destroy(dg)} :
       dg' = r.dp /\ glast' = DigestCall("destroy", dg.type, r)
  /\ gcalls' = gcalls + 1
  /\ UNCHANGED <<have, optVars, cmpVars, pathVars, loadVars, mapVars, copyVars, envVars, updVars, drvVars, treeVars>>

DigestNext == DigestInit \/ DigestUpdate \/ DigestFinal \/ DigestDestroy

SpecDigest == DigestStart /\ [][DigestNext]_vars

CtxInitialised(dp, tag) ==
  CASE tag = "ADLER32"  -> dp.ctx.adler32 = adler32_z(<<0, 0>>, NULL)
    [] tag = "SKEIN256" -> dp.ctx.skein256 = [init |-> TRUE, len |-> 0]
    [] OTHER            -> TRUE

(***************************************************************************)
(* C23: digest_init(tag) moves the instance to INIT with type = tag when   *)
(* the build provides the algorithm; when the build lacks it, it fails     *)
(* with ENOSYS and the instance is not in INIT; it never reports success   *)
(* for an algorithm whose context it did not initialise.                   *)
(***************************************************************************)
C23_InitSupported ==
  (glast.op = "init" /\ glast.tag \in DigestAlgos) =>
    /\ glast.tag \in have =>
         (glast.rc = 0 /\ dg.state = "INIT" /\ dg.type = glast.tag)
    /\ glast.tag \notin have =>
         (glast.rc < 0 /\ glast.errno = "ENOSYS" /\ dg.state # "INIT")
    /\ glast.rc = 0 => CtxInitialised(dg, glast.tag)

\* the first part alone: state and type for an algorithm the build provides
C23_ProvidedState ==
  (glast.op = "init" /\ glast.tag \in DigestAlgos /\ glast.tag \in have) =>
    (glast.rc = 0 /\ dg.state = "INIT" /\ dg.type = glast.tag)

\* success reported for an algorithm the build provides, with its context left cleared
C23_ProvidedNotInitialised ==
  /\ glast.op = "init" /\ glast.tag = "ADLER32" /\ "ADLER32" \in have /\ glast.rc = 0
  /\ ~CtxInitialised(dg, "ADLER32")

\* success reported for an algorithm the build lacks
C23_LackingAccepted ==
  /\ glast.op = "init" /\ glast.tag = "SKEIN256" /\ "SKEIN256" \notin have
  /\ glast.rc = 0 /\ dg.state = "INIT"


(***************************************************************************)
(* The map with its values (btree.c), SpecMap: btree_create, then calls of *)
(* btree_insert, btree_search and btree_delete, and a last btree_destroy.  *)
(* A BNODE is a record in the heap; 0 is the NULL pointer.  A key is the   *)
(* allocation p the caller handed over and its bytes s; a value is the     *)
(* number of the call that stored it.                                      *)
(***************************************************************************)
MaxMapCalls == 5
MapKeys     == {<<97>>, <<98>>, <<99>>, <<100>>}

\* the NULL key pointer
NoKey == [p |-> 0, s |-> <<>>]

\* free() leaves the bytes of a node in place: the nodes released so far
FreedNodes(freed) == {freed[i][2] : i \in {j \in DOMAIN freed : freed[j][1] = "node"}}

\* bnode_create: a node with the key and the value, no parent and no children
bnode_create(h, id, key, val) ==
  [x \in DOMAIN h \cup {id} |->
     IF x = id THEN [parent |-> 0, left |-> 0, right |-> 0, key |-> key, val |-> val]
     ELSE h[x]]

\* bnode_destroy, its end: vfree(n->val) if the map has a disposer, free(n->key), free(n)
bnode_release(u, n, vfree) ==
  IF u.crash THEN u
  ELSE [u EXCEPT !.freed = (IF vfree # NULL THEN Append(@, <<"val", u.heap[n].val>>) ELSE @)
                              \o <<<<"key", u.heap[n].key.p>>, <<"node", n>>>>,
                 !.heap[n].val = 0, !.heap[n].key = NoKey]

\* bnode_destroy, if (n->parent): the node is taken off its parent; a parent already
\* freed is read and written all the same, which works on the stale bytes or crashes
bnode_unlink(u, n, ub) ==
  IF u.crash \/ u.heap[n].parent = 0 THEN u
  ELSE LET pn == u.heap[n].parent
       IN  IF pn \in FreedNodes(u.freed) /\ ub = "crash" THEN [u EXCEPT !.crash = TRUE]
           ELSE [u EXCEPT !.heap[pn].left  = IF @ = n THEN 0 ELSE @,
                          !.heap[pn].right = IF @ = n THEN 0 ELSE @,
                          !.heap[n].parent = 0]

\* bnode_destroy: n->left = NULL, n->right = NULL after the subtree is gone
bnode_clear(u, n, side) == IF u.crash THEN u ELSE [u EXCEPT !.heap[n][side] = 0]

\* bnode_destroy: the left subtree, the right subtree, then the node itself
RECURSIVE bnode_destroy(_, _, _, _)
bnode_destroy_side(u, n, side, vfree, ub) ==
  IF u.crash \/ u.heap[n][side] = 0 THEN u
  ELSE bnode_clear(bnode_destroy(u, u.heap[n][side], vfree, ub), n, side)
bnode_destroy(u, n, vfree, ub) ==
  IF n = 0 THEN u
  ELSE bnode_release(
         bnode_unlink(
           bnode_destroy_side(bnode_destroy_side(u, n, "left", vfree, ub), n, "right", vfree, ub),
           n, ub),
         n, vfree)

\* bnode_search: left when kcmp < 0, right when > 0, the node when 0, NULL at the end
RECURSIVE bnode_search(_, _, _)
bnode_search(h, cn, key) ==
  IF cn = 0 THEN 0
  ELSE IF strcmp(key, h[cn].key.s) < 0 THEN bnode_search(h, h[cn].left, key)
  ELSE IF strcmp(key, h[cn].key.s) > 0 THEN bnode_search(h, h[cn].right, key)
  ELSE cn

\* bnode_min: the left-most node below n
RECURSIVE bnode_min(_, _)
bnode_min(h, n) == IF n # 0 /\ h[n].left # 0 THEN bnode_min(h, h[n].left) ELSE n

\* bnode_delete: the node taken out of the tree (to be freed by the caller), or NULL.
\* A node with two subtrees takes the key and value of the left-most node of its
\* right subtree, and the search for key goes on in the right subtree.
RECURSIVE bnode_delete(_, _, _, _)
bnode_delete(h, key, n, pn) ==
  IF strcmp(key, h[n].key.s) < 0
    THEN IF h[n].left # 0 THEN bnode_delete(h, key, h[n].left, n) ELSE [heap |-> h, rn |-> 0]
  ELSE IF strcmp(key, h[n].key.s) > 0
    THEN IF h[n].right # 0 THEN bnode_delete(h, key, h[n].right, n) ELSE [heap |-> h, rn |-> 0]
  ELSE IF h[n].left # 0 /\ h[n].right # 0
    THEN bnode_delete([h EXCEPT ![n].key = h[bnode_min(h, h[n].right)].key,
                                ![n].val = h[bnode_min(h, h[n].right)].val],
                      key, h[n].right, n)
  ELSE IF h[pn].left = n
    THEN [heap |-> [h EXCEPT ![pn].left = IF h[n].left # 0 THEN h[n].left ELSE h[n].right],
          rn |-> n]
  ELSE IF h[pn].right = n
    THEN [heap |-> [h EXCEPT ![pn].right = IF h[n].left # 0 THEN h[n].left ELSE h[n].right],
          rn |-> n]
  ELSE [heap |-> h, rn |-> 0]

\* what a call hands back: the heap, the BTREE, the releases, the value returned, errno
MapRet(h, bt, freed, rc, errno) ==
  [heap |-> h, bt |-> bt, freed |-> freed, rc |-> rc, errno |-> errno]

\* btree_create: no head, no entries; kcmp is strcmp
btree_create(vfree) == [head |-> 0, entries |-> 0, vfree |-> vfree, live |-> TRUE]

\* btree_insert, the key is there already: the new node was destroyed, -1 and EEXIST
bnode_eexist(u, bt) == MapRet(u.heap, bt, u.freed, -1, "EEXIST")

\* btree_insert taking the value of the new node where it has to reject the key
RECURSIVE btree_insert_at(_, _, _, _, _, _)
btree_insert_at_replace(h, bt, freed, nn, pn, cn) ==
  IF cn # 0
    THEN IF strcmp(h[nn].key.s, h[cn].key.s) < 0
           THEN btree_insert_at(h, bt, freed, nn, cn, h[cn].left)
         ELSE IF strcmp(h[nn].key.s, h[cn].key.s) > 0
           THEN btree_insert_at(h, bt, freed, nn, cn, h[cn].right)
         ELSE MapRet([h EXCEPT ![cn].val = h[nn].val], bt, freed, -1, "EEXIST")
  ELSE IF pn = 0
    THEN MapRet([h EXCEPT ![nn].parent = pn],
                [bt EXCEPT !.head = nn, !.entries = @ + 1], freed, 0, "")
  ELSE IF strcmp(h[nn].key.s, h[pn].key.s) < 0
    THEN MapRet([h EXCEPT ![nn].parent = pn, ![pn].left = nn],
                [bt EXCEPT !.entries = @ + 1], freed, 0, "")
  ELSE MapRet([h EXCEPT ![nn].parent = pn, ![pn].right = nn],
              [bt EXCEPT !.entries = @ + 1], freed, 0, "")

\* btree_insert, the place of the new node nn: below pn, on the side kcmp tells
btree_insert_at(h, bt, freed, nn, pn, cn) ==
  IF cn # 0
    THEN IF strcmp(h[nn].key.s, h[cn].key.s) < 0
           THEN btree_insert_at(h, bt, freed, nn, cn, h[cn].left)
         ELSE IF strcmp(h[nn].key.s, h[cn].key.s) > 0
           THEN btree_insert_at(h, bt, freed, nn, cn, h[cn].right)
         ELSE bnode_eexist(
                bnode_destroy([heap |-> h, freed |-> freed, crash |-> FALSE], nn, bt.vfree, "stale"),
                bt)
  ELSE IF pn = 0
    THEN MapRet([h EXCEPT ![nn].parent = pn],
                [bt EXCEPT !.head = nn, !.entries = @ + 1], freed, 0, "")
  ELSE IF strcmp(h[nn].key.s, h[pn].key.s) < 0
    THEN MapRet([h EXCEPT ![nn].parent = pn, ![pn].left = nn],
                [bt EXCEPT !.entries = @ + 1], freed, 0, "")
  ELSE MapRet([h EXCEPT ![nn].parent = pn, ![pn].right = nn],
              [bt EXCEPT !.entries = @ + 1], freed, 0, "")

\* btree_insert(bt, key, val): the node is created first, nn its address
btree_insert_val(h, bt, freed, nn, key, val) ==
  btree_insert_at(bnode_create(h, nn, key, val), bt, freed, nn, 0, bt.head)

\* btree_search: 0 and the value, or -1 and ENOENT
btree_search(h, bt, key) ==
  IF bnode_search(h, bt.head, key) # 0
    THEN [rc |-> 0, val |-> h[bnode_search(h, bt.head, key)].val, errno |-> ""]
  ELSE [rc |-> -1, val |-> 0, errno |-> "ENOENT"]

\* btree_delete, after bnode_delete handed back rn: free(rn) and 0, or 1
btree_delete_end(r, bt, freed, althead) ==
  LET head == IF althead # 0 THEN r.heap[althead].left ELSE bt.head
  IN  IF r.rn # 0
        THEN MapRet(r.heap, [bt EXCEPT !.head = head], Append(freed, <<"node", r.rn>>), 0, "")
      ELSE MapRet(r.heap, [bt EXCEPT !.head = head], freed, 1, "")

\* btree_delete, the head is the node: a node allocated to stand above it, never freed
althead_create(h, althead, head) ==
  [x \in DOMAIN h \cup {althead} |->
     IF x = althead THEN [parent |-> 0, left |-> head, right |-> 0, key |-> NoKey, val |-> 0]
     ELSE h[x]]

\* btree_delete: 1 when the key is not found; the head is deleted below althead
btree_delete(h, bt, freed, althead, key) ==
  IF bnode_search(h, bt.head, key) = 0 THEN MapRet(h, bt, freed, 1, "")
  ELSE IF bt.head = bnode_search(h, bt.head, key)
    THEN btree_delete_end(
           bnode_delete(althead_create(h, althead, bt.head), key, bt.head, althead),
           bt, freed, althead)
  ELSE btree_delete_end(bnode_delete(h, key, bt.head, 0), bt, freed, 0)

\* btree_destroy: the nodes from the head on, then the BTREE itself
btree_destroy_end(u, bt) ==
  MapRet(u.heap,
         [head |-> IF u.crash THEN bt.head ELSE 0, entries |-> bt.entries, vfree |-> NULL, live |-> FALSE],
         u.freed, IF u.crash THEN -2 ELSE 0, IF u.crash THEN "SIGSEGV" ELSE "")
btree_destroy(h, bt, freed, ub) ==
  btree_destroy_end(bnode_destroy([heap |-> h, freed |-> freed, crash |-> FALSE], bt.head, bt.vfree, ub), bt)

\* a call as mlast keeps it
MapCall(op, key, val, r) ==
  [op |-> op, key |-> key, val |-> val, rc |-> r.rc, errno |-> r.errno,
   pre |-> [heap |-> mheap, bt |-> mbt, freed |-> mfreed]]

\* bp = btree_create(NULL, vfree): node_free for a directory (pc.c), none for attributes
MapInit ==
  /\ DefaultOptions
  /\ mheap = <<>> /\ mfreed = <<>> /\ mfound = <<>> /\ mcalls = 0 /\ mown = {}
  /\ mbt \in {btree_create(vf) : vf \in {"node_free", NULL}}
  /\ mlast = [op |-> "create", key |-> <<>>, val |-> 0, rc |-> 0, errno |-> "",
              pre |-> [heap |-> <<>>, bt |-> mbt, freed |-> <<>>]]
  /\ CopyIdle /\ EnvIdle /\ UpdIdle /\ DrvIdle /\ TreeIdle /\ DigIdle /\ LoadIdle /\ PathIdle /\ CmpIdle

\* btree_insert(bt, strdup(name), val)
MapInsert ==
  /\ mbt.live /\ mcalls < MaxMapCalls
  /\ \E s \in MapKeys :
       \E r \in {btree_insert_val(mheap, mbt, mfreed, mcalls + 1,
                                  [p |-> mcalls + 1, s |-> s], mcalls + 1)} :
         /\ mheap' = r.heap /\ mbt' = r.bt /\ mfreed' = r.freed
         /\ mlast' = MapCall("insert", s, mcalls + 1, r)
         /\ mown' = IF r.rc = 0 THEN mown \cup {mcalls + 1} ELSE mown
  /\ mfound' = <<>> /\ mcalls' = mcalls + 1
  /\ UNCHANGED <<optVars, cmpVars, pathVars, loadVars, digVars, copyVars, envVars, updVars, drvVars, treeVars>>

\* btree_search(bt, key, &val)
MapSearch ==
  /\ mbt.live /\ mfound = <<>>
  /\ \E s \in MapKeys : \E r \in {btree_search(mheap, mbt, s)} :
       mfound' = [key |-> s, rc |-> r.rc, val |-> r.val, errno |-> r.errno]
  /\ UNCHANGED <<mheap, mbt, mfreed, mlast, mcalls, mown,
                 optVars, cmpVars, pathVars, loadVars, digVars, copyVars, envVars, updVars, drvVars, treeVars>>

\* btree_delete(bt, key)
MapDelete ==
  /\ mbt.live /\ mcalls < MaxMapCalls
  /\ \E s \in MapKeys :
       \E r \in {btree_delete(mheap, mbt, mfreed, MaxMapCalls + mcalls + 1, s)} :
         /\ mheap' = r.heap /\ mbt' = r.bt /\ mfreed' = r.freed
         /\ mlast' = MapCall("delete", s, 0, r)
  /\ mfound' = <<>> /\ mcalls' = mcalls + 1
  /\ UNCHANGED <<mown, optVars, cmpVars, pathVars, loadVars, digVars, copyVars, envVars, updVars, drvVars, treeVars>>

\* btree_destroy(bt)
MapDestroy ==
  /\ mbt.live
  /\ \E ub \in {"stale", "crash"} : \E r \in {btree_destroy(mheap, mbt, mfreed, ub)} :
       /\ mheap' = r.heap /\ mbt' = r.bt /\ mfreed' = r.freed
       /\ mlast' = MapCall("destroy", <<>>, 0, r)
  /\ mfound' = <<>> /\ mcalls' = mcalls + 1
  /\ UNCHANGED <<mown, optVars, cmpVars, pathVars, loadVars, digVars, copyVars, envVars, updVars, drvVars, treeVars>>

MapNext == MapInsert \/ MapSearch \/ MapDelete \/ MapDestroy

SpecMap == MapInit /\ [][MapNext]_vars


\* the keys and values of a tree in the order of its nodes, left to right
RECURSIVE MapWalk(_, _)
MapWalk(h, n) ==
  IF n = 0 THEN <<>>
  ELSE MapWalk(h, h[n].left) \o <<<<h[n].key.s, h[n].val>>>> \o MapWalk(h, h[n].right)
MapPairs(h, bt) == {MapWalk(h, bt.head)[i] : i \in DOMAIN MapWalk(h, bt.head)}
MapPresent(h, bt, key) == btree_search(h, bt, key).rc = 0

\* C24: btree_insert of a key the map holds fails with EEXIST and leaves the keys, the
\* values, what every search returns and the entry count as they were; btree_insert of
\* a key the map does not hold returns 0, adds that key with its value and nothing
\* else, counts one entry more, and btree_search then returns the value.
C24_InsertOnce ==
  (mlast.op = "insert") =>
    IF MapPresent(mlast.pre.heap, mlast.pre.bt, mlast.key)
      THEN /\ mlast.rc = -1 /\ mlast.errno = "EEXIST"
           /\ MapWalk(mheap, mbt.head) = MapWalk(mlast.pre.heap, mlast.pre.bt.head)
           /\ mbt.entries = mlast.pre.bt.entries
           /\ \A k \in MapKeys :
                btree_search(mheap, mbt, k) = btree_search(mlast.pre.heap, mlast.pre.bt, k)
      ELSE /\ mlast.rc = 0
           /\ MapPairs(mheap, mbt) = MapPairs(mlast.pre.heap, mlast.pre.bt)
                                       \cup {<<mlast.key, mlast.val>>}
           /\ Len(MapWalk(mheap, mbt.head)) = Len(MapWalk(mlast.pre.heap, mlast.pre.bt.head)) + 1
           /\ mbt.entries = mlast.pre.bt.entries + 1
           /\ btree_search(mheap, mbt, mlast.key) = [rc |-> 0, val |-> mlast.val, errno |-> ""]
           /\ \A k \in MapKeys \ {mlast.key} :
                btree_search(mheap, mbt, k) = btree_search(mlast.pre.heap, mlast.pre.bt, k)

\* a key is rejected by a map of three keys that holds it below the head
C24_Witness ==
  /\ mlast.op = "insert" /\ mlast.rc = -1 /\ mlast.pre.bt.entries = 3
  /\ mheap[mbt.head].key.s # mlast.key
  /\ btree_search(mheap, mbt, mlast.key).rc = 0

\* the node btree_delete found before the last call, 0 when the key was absent
DeletedNode == bnode_search(mlast.pre.heap, mlast.pre.bt.head, mlast.key)
TwoChildren(h, n) == n # 0 /\ h[n].left # 0 /\ h[n].right # 0

\* what C25 says of a delete of a present key: 0 is returned, the key is gone, the
\* other keys and their values are as before
DeleteRemoves ==
  /\ mlast.rc = 0
  /\ btree_search(mheap, mbt, mlast.key).rc = -1
  /\ MapPairs(mheap, mbt)
       = {kv \in MapPairs(mlast.pre.heap, mlast.pre.bt) : kv[1] # mlast.key}
  /\ Len(MapWalk(mheap, mbt.head)) = Len(MapWalk(mlast.pre.heap, mlast.pre.bt.head)) - 1
  /\ \A k \in MapKeys \ {mlast.key} :
       btree_search(mheap, mbt, k) = btree_search(mlast.pre.heap, mlast.pre.bt, k)

\* what C25 says of a delete of an absent key: 1 is returned, nothing changes
DeleteAbsent ==
  /\ mlast.rc = 1
  /\ MapWalk(mheap, mbt.head) = MapWalk(mlast.pre.heap, mlast.pre.bt.head)
  /\ \A k \in MapKeys :
       btree_search(mheap, mbt, k) = btree_search(mlast.pre.heap, mlast.pre.bt, k)

\* the keys of the map before the last call are all different
PreDistinct ==
  \A i, j \in DOMAIN MapWalk(mlast.pre.heap, mlast.pre.bt.head) :
    i # j => MapWalk(mlast.pre.heap, mlast.pre.bt.head)[i][1]
               # MapWalk(mlast.pre.heap, mlast.pre.bt.head)[j][1]

\* C25: btree_delete(key) returns 0 and removes exactly that key wherever its node is
\* (a leaf, a node with one child, a node with two children, the head), every other
\* key stays searchable with its value; it returns 1 and changes nothing when the key
\* is absent.
C25_DeleteExactly ==
  (mlast.op = "delete") =>
    IF DeletedNode # 0 THEN DeleteRemoves ELSE DeleteAbsent

\* the same for a node with at most one child, and for an absent key
C25_OneChildOrNone ==
  (mlast.op = "delete" /\ PreDistinct /\ ~TwoChildren(mlast.pre.heap, DeletedNode)) =>
    IF DeletedNode # 0 THEN DeleteRemoves ELSE DeleteAbsent

\* never reached: the delete of a node with two children returns 1 and leaves the key
\* of another node in the tree twice
C25_TwoChildrenFail ==
  ~(/\ mlast.op = "delete" /\ PreDistinct /\ TwoChildren(mlast.pre.heap, DeletedNode)
    /\ mlast.rc = 1
    /\ Len(MapWalk(mheap, mbt.head)) = Len(MapWalk(mlast.pre.heap, mlast.pre.bt.head))
    /\ \E i, j \in DOMAIN MapWalk(mheap, mbt.head) :
         i # j /\ MapWalk(mheap, mbt.head)[i] = MapWalk(mheap, mbt.head)[j])

\* never violated: a node with two children, head or not, is never deleted with 0
C25_TwoChildrenNever ==
  (mlast.op = "delete" /\ PreDistinct /\ TwoChildren(mlast.pre.heap, DeletedNode))
    => mlast.rc = 1

\* how often the map released x: vfree(x) for "val", free of the key of call x for "key"
Released(kind, x) == Cardinality({i \in DOMAIN mfreed : mfreed[i] = <<kind, x>>})
Disposer == mlast.pre.bt.vfree # NULL

\* C26: the map owns its keys and values: a value stored by a successful insert is
\* passed to the disposer exactly once, at the successful delete of its key or at
\* btree_destroy when it is still there, and never twice; a stored key is freed
\* exactly once in the same way.
C26_OwnedOnce ==
  /\ \A x \in mown : Released("val", x) <= 1 /\ Released("key", x) <= 1
  /\ (mlast.op = "delete" /\ mlast.rc = 0) =>
       /\ Released("key", mlast.pre.heap[DeletedNode].key.p) = 1
       /\ Disposer => Released("val", mlast.pre.heap[DeletedNode].val) = 1
  /\ (mlast.op = "destroy" /\ mlast.rc = 0) =>
       \A x \in mown : /\ Released("key", x) = 1
                       /\ Disposer => Released("val", x) = 1

\* a map whose tree holds every stored value once is destroyed: each value is disposed
\* once, each key freed once
C26_DestroyReleasesTree ==
  (/\ mlast.op = "destroy" /\ mlast.rc = 0
   /\ Len(MapWalk(mlast.pre.heap, mlast.pre.bt.head)) = Cardinality(mown)
   /\ {kv[2] : kv \in MapPairs(mlast.pre.heap, mlast.pre.bt)} = mown)
    => \A x \in mown : /\ Released("key", x) = 1
                       /\ Released("val", x) = IF Disposer THEN 1 ELSE 0

\* never violated: btree_delete releases a node and nothing else
C26_DeleteFreesNodeOnly ==
  (mlast.op = "delete") =>
    \/ mfreed = mlast.pre.freed
    \/ /\ Len(mfreed) = Len(mlast.pre.freed) + 1
       /\ mfreed[Len(mfreed)][1] = "node"

\* never reached, if the claim held: a successful delete with a disposer, and the
\* value of the deleted key is not disposed at btree_destroy either
C26_NeverDisposed ==
  ~(/\ mlast.op = "destroy" /\ mlast.rc = 0 /\ Disposer
    /\ \E x \in mown : Released("val", x) = 0 /\ Released("key", x) = 0)

\* never reached, if the claim held: a value passed to the disposer twice
C26_DisposedTwice ==
  ~(\E x \in mown : Released("val", x) = 2 /\ Released("key", x) = 2)

\* never reached, if the claim held: btree_destroy after a delete reads a freed node
C26_DestroyReadsFreed ==
  ~(mlast.op = "destroy" /\ mlast.errno = "SIGSEGV")


(***************************************************************************)
(* dirnode_add on the path as it is written (pc.c:1052-1150), SpecPath: a  *)
(* path is the sequence of its characters.  The working directory is /a in *)
(* a small tree: /a, /a/a directories, /b, /a/b regular files.             *)
(***************************************************************************)
MaxPathLen == 4
PathChars  == {"/", ".", "a", "b"}
PathDirs   == {<<>>, << <<"a">> >>, << <<"a">>, <<"a">> >>}
PathFiles  == {<< <<"b">> >>, << <<"a">>, <<"b">> >>}
PathCwd    == << <<"a">> >>

\* the names between the separators of a path, the empty ones too
RECURSIVE Components(_, _, _)
Components(p, i, cur) ==
  IF i > Len(p) THEN <<cur>>
  ELSE IF p[i] = "/" THEN <<cur>> \o Components(p, i + 1, <<>>)
  ELSE Components(p, i + 1, Append(cur, p[i]))

\* the errors of a path lookup, in the place of the object found
ENOENT  == << <<"ENOENT">> >>
ENOTDIR == << <<"ENOTDIR">> >>

\* the kernel's walk along the names of a path from directory at: the object found,
\* or ENOENT / ENOTDIR
RECURSIVE namei(_, _, _)
namei(at, names, i) ==
  IF i > Len(names) THEN at
  ELSE IF at \notin PathDirs THEN ENOTDIR
  ELSE IF names[i] \in {<<>>, <<".">>} THEN namei(at, names, i + 1)
  ELSE IF names[i] = <<".", ".">>
    THEN namei(IF at = <<>> THEN at ELSE SubSeq(at, 1, Len(at) - 1), names, i + 1)
  ELSE IF Append(at, names[i]) \in PathDirs \cup PathFiles
    THEN namei(Append(at, names[i]), names, i + 1)
  ELSE ENOENT

\* lstat(path), opendir(path): the empty path is ENOENT, "/..." starts at the root
sys_lstat(p) ==
  IF p = <<>> THEN ENOENT
  ELSE namei(IF p[1] = "/" THEN <<>> ELSE PathCwd, Components(p, 1, <<>>), 1)

\* readdir: ".", ".." and the names of the directory
sys_readdir(dir) ==
  {<<".">>, <<".", ".">>}
    \cup {q[Len(q)] : q \in {x \in PathDirs \cup PathFiles : Len(x) = Len(dir) + 1
                                                      /\ SubSeq(x, 1, Len(dir)) = dir}}

\* while (len > 0 && pbuf[len-1] == '/') { ++n_trail; --len; }
RECURSIVE strip_trail(_, _)
strip_trail(pbuf, len) ==
  IF len > 0 /\ pbuf[len] = "/" THEN strip_trail(pbuf, len - 1) ELSE len

\* while (len >= 0 && pbuf[len] != '/') --len;   (len counts from 0)
RECURSIVE scan_slash(_, _)
scan_slash(pbuf, len) ==
  IF len >= 0 /\ pbuf[len + 1] # "/" THEN scan_slash(pbuf, len - 1) ELSE len

\* dirnode_add, the path cut in two: pbuf is the path without its trailing slashes,
\* dirname "." and nodename pbuf when pbuf has no slash, else dirname the len bytes
\* before the last slash (1 when that is 0) and nodename = pbuf+len+1
dirnode_split(path) ==
  LET n    == strip_trail(path, Len(path))
      pbuf == SubSeq(path, 1, n)
      len  == scan_slash(pbuf, n - 1)
      cut  == IF len = 0 THEN 1 ELSE len
  IN  [pbuf |-> pbuf, n_trail |-> Len(path) - n,
       dirname  |-> IF len < 0 THEN <<".">> ELSE SubSeq(pbuf, 1, cut),
       nodename |-> IF len < 0 THEN pbuf ELSE SubSeq(pbuf, cut + 2, n)]

\* dirnode_add(dnp, path, dir_contents_f) on an empty node: the contents of the
\* directory pbuf but "." and "..", or the one node of path under the key nodename
dirnode_add(path, dir_contents_f) ==
  LET sp == dirnode_split(path)
  IN  IF dir_contents_f # 0 \/ sp.n_trail > 0
        THEN IF sys_lstat(sp.pbuf) \notin PathDirs
               THEN [rc |-> -1, keys |-> {}, split |-> sp, leaf |-> FALSE]
             ELSE [rc |-> 0, keys |-> sys_readdir(sys_lstat(sp.pbuf)) \ {<<".">>, <<".", ".">>},
                   split |-> sp, leaf |-> FALSE]
      ELSE IF sys_lstat(path) \notin PathDirs \cup PathFiles
        THEN [rc |-> -1, keys |-> {}, split |-> sp, leaf |-> TRUE]
      ELSE [rc |-> 0, keys |-> {sp.nodename}, split |-> sp, leaf |-> TRUE]

PathInit ==
  /\ DefaultOptions
  /\ ppath \in UNION {[1..n -> PathChars] : n \in 0..MaxPathLen}
  /\ pres = <<>>
  /\ CopyIdle /\ EnvIdle /\ UpdIdle /\ DrvIdle /\ TreeIdle /\ DigIdle /\ MapIdle /\ LoadIdle /\ CmpIdle

\* main: dirnode_add(src, argv[j], 0)
DirnodeAddLeaf ==
  /\ pres = <<>>
  /\ pres' = dirnode_add(ppath, 0)
  /\ UNCHANGED <<ppath, optVars, cmpVars, loadVars, mapVars, digVars, copyVars, envVars, updVars, drvVars, treeVars>>

\* main, dir_compare: dirnode_add(dst, path, 1)
DirnodeAddContents ==
  /\ pres = <<>>
  /\ pres' = dirnode_add(ppath, 1)
  /\ UNCHANGED <<ppath, optVars, cmpVars, loadVars, mapVars, digVars, copyVars, envVars, updVars, drvVars, treeVars>>

PathNext == DirnodeAddLeaf \/ DirnodeAddContents

SpecPath == PathInit /\ [][PathNext]_vars

\* the final component of a path: its last name that is not empty
LastName(path) ==
  LET c == Components(path, 1, <<>>)
      I == {i \in DOMAIN c : c[i] # <<>>}
  IN  IF I = {} THEN <<>> ELSE c[CHOOSE i \in I : \A j \in I : j <= i]

\* C27: every key of a loaded directory map is the final component of its node's
\* path: in leaf mode the one key is the last component of the path given, be it
\* relative, absolute or directly under the root; no key contains a separator, no key
\* is "." or "..".
C27_KeysAreNames ==
  (pres # <<>> /\ pres.rc = 0) =>
    /\ pres.leaf => pres.keys = {LastName(ppath)}
    /\ \A k \in pres.keys :
         /\ k \notin {<<".">>, <<".", ".">>}
         /\ \A i \in DOMAIN k : k[i] # "/"

\* the keys of the contents of a directory are names, never "." or ".."
C27_ContentsKeys ==
  (pres # <<>> /\ pres.rc = 0 /\ ~pres.leaf) =>
    \A k \in pres.keys :
      /\ k \notin {<<>>, <<".">>, <<".", ".">>}
      /\ \A i \in DOMAIN k : k[i] # "/"

\* the one key is the last component when the last slash is not the first character
C27_LeafBelowSlash ==
  (pres # <<>> /\ pres.rc = 0 /\ pres.leaf /\ pres.split.dirname # <<"/">>) =>
    pres.keys = {LastName(ppath)}

\* never reached, if the claim held: "/b" is loaded under the empty key
C27_UnderRoot ==
  ~(pres # <<>> /\ pres.rc = 0 /\ pres.leaf /\ ppath = <<"/", "b">> /\ pres.keys = {<<>>})

\* never reached, if the claim held: a path that ends in "." or ".." is loaded under
\* that key
C27_DotKey ==
  ~(pres # <<>> /\ pres.rc = 0 /\ pres.leaf /\ pres.keys \cap {<<".">>, <<".", ".">>} # {})

\* an operand of the command line does not exist
MissingOperand ==
  \/ argv.dst \notin DOMAIN fs0
  \/ \E j \in DOMAIN argv.srcs : argv.srcs[j] \notin DOMAIN fs0

\* the load of directory p fails though p is a directory
LoadFailed(p) ==
  IsDir(fs, p) /\ (<<"opendir", p>> \in lfail \/ ReadFails(fs, p) # {})

\* C28: the load of a path that does not exist gives an empty directory node and no
\* error, for an operand of the command line as well as for a directory of the
\* recursion: the run goes on and compares against the empty node.
C28_MissingIsEmpty ==
  /\ MissingOperand => ~(dpc = "exit" /\ log = <<>>)
  /\ \A k \in DOMAIN stack :
       /\ (k > 1 /\ stack[k].src \notin DOMAIN fs) => stack[k].snodes = <<>>
       /\ stack[k].dst \notin DOMAIN fs => stack[k].dnodes = <<>>

\* in the recursion a directory that does not exist is an empty node
C28_RecursionEmpty ==
  \A k \in DOMAIN stack :
    /\ (k > 1 /\ stack[k].src \notin DOMAIN fs) => stack[k].snodes = <<>>
    /\ (k > 1 /\ stack[k].dst \notin DOMAIN fs) => stack[k].dnodes = <<>>

\* never reached, if the claim held: the run ends with status 1 before anything is
\* compared, the destination operand does not exist
C28_DstExit ==
  ~(argv.dst \notin DOMAIN fs0 /\ dpc = "exit" /\ exitrc = 1 /\ log = <<>>)

\* never reached, if the claim held: the same for a source operand
C28_SrcExit ==
  ~(argv.dst \in DOMAIN fs0 /\ MissingOperand /\ dpc = "exit" /\ exitrc = 1 /\ log = <<>>)

\* not an invariant: the recursion gets to a destination directory that does not exist
C28_RecursionMissing ==
  ~(\E k \in DOMAIN stack : k > 1 /\ stack[k].dst \notin DOMAIN fs /\ stack[k].snodes # <<>>)

\* the levels of the recursion where the load of the source or destination failed
FailedLevels == {k \in DOMAIN stack : k > 1 /\ (LoadFailed(stack[k].src) \/ LoadFailed(stack[k].dst))}

\* C29: a directory that exists and cannot be enumerated (opendir refused, or lstat of
\* one of its children failing) makes the load fail, and dir_compare returns non-zero
\* for it without comparing against the empty or partial map.
C29_LoadFailurePropagates ==
  \A k \in FailedLevels : stack[k].pass = "ret" /\ stack[k].rc # 0

\* not an invariant: the names of a level whose load failed are walked
C29_PartialCompared ==
  ~(\E k \in FailedLevels : stack[k].pass \in {"src", "dst"})

\* not an invariant: a run with a load that failed ends with status 0, no call failed
C29_FailureUnseen ==
  ~(/\ dpc = "exit" /\ exitrc = 0 /\ AllOk /\ f_recurse # 0 /\ lfail # {}
    /\ \E i \in DOMAIN log : log[i].op = "enter" /\ Len(log[i].path) = 3)

\* the directory of the source that stands against the directory of destination path p
SrcDirOf(p) == Tail(Parent(p))

\* C30: check_removed removes or rmdirs a destination entry only when the source
\* directory of that level was enumerated completely and with success and has no
\* entry of that name; a source directory whose enumeration failed or stopped
\* part-way never causes a removal.
C30_RemovalNeedsFullSource ==
  \A i \in DOMAIN log :
    (log[i].who = "check_removed" /\ log[i].op \in {"unlink", "rmdir"} /\ Len(log[i].path) > 2)
      => /\ ~(IsDir(fs0, SrcDirOf(log[i].path))
              /\ (<<"opendir", SrcDirOf(log[i].path)>> \in lfail
                    \/ ReadFails(fs0, SrcDirOf(log[i].path)) # {}))
         /\ Tail(log[i].path) \notin DOMAIN fs0

\* not an invariant: a name the source has is removed from the destination, with
\* success, after the source directory could not be opened
C30_RemovedAfterOpendir ==
  ~(\E i \in DOMAIN log :
      /\ log[i].who = "check_removed" /\ log[i].op = "unlink" /\ log[i].ok
      /\ Len(log[i].path) > 2 /\ Tail(log[i].path) \in DOMAIN fs0
      /\ <<"opendir", SrcDirOf(log[i].path)>> \in lfail)

\* not an invariant: the same after the enumeration stopped part-way, another name of
\* that directory having been loaded
C30_RemovedAfterPartial ==
  ~(\E i \in DOMAIN log :
      /\ log[i].who = "check_removed" /\ log[i].op = "unlink" /\ log[i].ok
      /\ Len(log[i].path) > 2 /\ Tail(log[i].path) \in DOMAIN fs0
      /\ ReadBefore(fs0, SrcDirOf(log[i].path)) # {}
      /\ ReadFails(fs0, SrcDirOf(log[i].path)) # {})

\* with every load working, a removal at a level below the operands has no source entry
C30_FullSourceOnly ==
  (lfail = {}) =>
    \A i \in DOMAIN log :
      (log[i].who = "check_removed" /\ log[i].op \in {"unlink", "rmdir"} /\ Len(log[i].path) > 2)
        => Tail(log[i].path) \notin DOMAIN fs0

\* the keys btree_foreach visits, in the order of the visits
WalkKeys == [i \in DOMAIN MapWalk(mheap, mbt.head) |-> MapWalk(mheap, mbt.head)[i][1]]

\* the keys stored and not deleted since: the key of call x is in the map when the
\* insert returned 0 and no later call removed it from what btree_search finds
StoredKeys == {k \in MapKeys : btree_search(mheap, mbt, k).rc = 0}

\* C40: after any sequence of btree_insert and btree_delete an in-order traversal
\* yields each stored key exactly once, in strictly ascending order; no deleted key
\* and no duplicate of a remaining key is visited.
C40_WalkUniqueAscending ==
  mbt.live =>
    /\ \A i, j \in DOMAIN WalkKeys : i < j => strcmp(WalkKeys[i], WalkKeys[j]) < 0
    /\ {WalkKeys[i] : i \in DOMAIN WalkKeys} = StoredKeys

\* the walk never goes down: the tree stays a search tree but for equal keys
C40_AscendingOrEqual ==
  mbt.live =>
    \A i, j \in DOMAIN WalkKeys : i < j => strcmp(WalkKeys[i], WalkKeys[j]) <= 0

\* the deleted key itself is never visited, and every key found is visited
C40_NoDeletedKey ==
  mbt.live => {WalkKeys[i] : i \in DOMAIN WalkKeys} = StoredKeys

\* not an invariant: after the delete of a node with two children a key is visited twice
C40_VisitedTwice ==
  ~(/\ mbt.live /\ mlast.op = "delete" /\ TwoChildren(mlast.pre.heap, DeletedNode)
    /\ \E i \in DOMAIN WalkKeys : i > 1 /\ WalkKeys[i] = WalkKeys[i - 1])

\* the source node the walk of level k stands at
NodeAt(k) == stack[k].snodes[stack[k].keys[stack[k].i]]

\* C31: when the driver descends into a source directory, the directory it enumerates
\* is the path the source node was loaded from, also below a top-level source node
\* given with a directory prefix or a trailing separator, where the top-level
\* directory node has no path of its own.
C31_DescendOwnPath ==
  \A k \in DOMAIN stack :
    (k > 1 /\ stack[k - 1].pass = "src") => stack[k].src = NodeAt(k - 1).p

\* not an invariant: the node is x/a and the directory enumerated is a, whose file foo
\* ends up in d/a
C31_OtherDirectoryCopied ==
  ~(/\ dpc = "exit" /\ argv.srcs[1] = <<"x", "a">>
    /\ <<"d", "a", "foo">> \in DOMAIN fs /\ <<"d", "a", "foo">> \notin DOMAIN fs0)

\* not an invariant: a run with update and recurse ends with status 0, no call having
\* failed, and the file x/a/c was not copied to d/a/c
C31_NothingCopied ==
  ~(/\ dpc = "exit" /\ exitrc = 0 /\ AllOk /\ run = 1 /\ f_update # 0 /\ f_recurse # 0
    /\ argv.srcs[1] = <<"x", "a">>
    /\ <<"d", "a">> \in DOMAIN fs /\ <<"d", "a", "c">> \notin DOMAIN fs)

\* not an invariant: the same for the contents of x/
C31_TrailingSlash ==
  ~(/\ Len(stack) > 1 /\ stack[1].pass = "src" /\ argv.srcs[1] = <<"x", "">>
    /\ NodeAt(1).p = <<"x", "a">> /\ stack[2].src = <<"a">>)

(***************************************************************************)
(* SpecCompare: node_compare on a pair of nodes as node_get makes them,    *)
(* one name in the source and in the destination.  The owner and ACL       *)
(* switches and the caller vary.                                           *)
(***************************************************************************)
CmpTypes == {"reg", "dir", "chr"}
CmpUids  == {1, 2}
CmpGids  == {1, 3}
CmpRdevs == {1, 2}
CmpDevs  == {0, 1}
CmpAcls  == {NULL, "A", "B"}

\* the nodes of node_get at path p: st_rdev and the filesystem vary for a device,
\* the default ACL is what acl_get_file gave, asked for under f_acls only
CmpNodes(p) ==
  {[p |-> p, type |-> t, mode |-> 420, uid |-> u, gid |-> g, size |-> 0, mtime |-> 1,
    atime |-> 1, rdev |-> IF t = "chr" THEN r ELSE 0, dev |-> IF t = "chr" THEN dv ELSE 0,
    d |-> <<>>, flags |-> {}, l |-> NULL,
    nfs |-> NULL, acc |-> NULL, def |-> IF f_acls # 0 THEN df ELSE NULL,
    sys |-> NullMap, usr |-> NullMap] :
     t \in CmpTypes, u \in CmpUids, g \in CmpGids, r \in CmpRdevs, dv \in CmpDevs,
     df \in CmpAcls}

CompareInit ==
  /\ f_update = 1 /\ f_force = 0 /\ f_ignore = 0 /\ f_recurse = 0 /\ f_remove = 0
  /\ f_content = 1 /\ f_zero = 0 /\ f_perms = 0 /\ f_times = 0
  /\ f_attrs = 0 /\ f_flags = 0 /\ f_verbose = 0 /\ f_digest = 0
  /\ f_owner \in {0, 1} /\ f_acls \in {0, 1}
  /\ fs = <<>> /\ cred \in {Root, User} /\ suid_clear = FALSE /\ log = <<>>
  /\ cmpa \in CmpNodes(<<"a">>) /\ cmpb \in CmpNodes(<<"d", "a">>) /\ cmpd = -2
  /\ CopyIdle /\ UpdIdle /\ DrvIdle /\ TreeIdle /\ DigIdle /\ MapIdle /\ LoadIdle /\ PathIdle

\* d = node_compare(src_nip, dst_nip)
NodeCompare ==
  /\ cmpd = -2
  /\ cmpd' = node_compare(cmpa, cmpb)
  /\ UNCHANGED <<cmpa, cmpb, optVars, pathVars, loadVars, mapVars, digVars, copyVars, envVars, updVars, drvVars, treeVars>>

CompareNext == NodeCompare

SpecCompare == CompareInit /\ [][CompareNext]_vars

Compared  == cmpd # -2
IsDevice(n) == n.type \in {"blk", "chr"}

\* C36: node_compare sets bit 0x00000020 exactly when the source is a block or
\* character device and the device numbers the two nodes denote (st_rdev) differ: equal
\* rdev never gets the bit, whatever filesystems the nodes are on, different rdev always.
C36_RdevBit ==
  Compared => (HasBit(cmpd, 32) <=> (IsDevice(cmpa) /\ cmpa.rdev # cmpb.rdev))

\* two devices of one rdev on two filesystems: the bit is set
C36_EqualRdevFlagged ==
  /\ Compared /\ IsDevice(cmpa) /\ IsDevice(cmpb)
  /\ cmpa.rdev = cmpb.rdev /\ cmpa.dev # cmpb.dev /\ HasBit(cmpd, 32)

\* two devices of different rdev on one filesystem: the bit is not set
C36_DifferentRdevMissed ==
  /\ Compared /\ IsDevice(cmpa) /\ IsDevice(cmpb)
  /\ cmpa.rdev # cmpb.rdev /\ cmpa.dev = cmpb.dev /\ ~HasBit(cmpd, 32)

\* the bit follows st_dev, the filesystem the node is on
C36_BitIsStDev ==
  Compared => (HasBit(cmpd, 32) <=> (IsDevice(cmpa) /\ cmpa.dev # cmpb.dev))

\* C38: with owner tracking off node_compare sets no owner bit; with it on, bit
\* 0x00000002 is set exactly when the uids differ, and bit 0x00000004 exactly when the
\* gids differ and the caller is root or a member of the group concerned.
C38_OwnerBits ==
  Compared =>
    /\ f_owner = 0 => ~HasBit(cmpd, 2) /\ ~HasBit(cmpd, 4)
    /\ f_owner # 0 =>
         /\ HasBit(cmpd, 2) <=> cmpa.uid # cmpb.uid
         /\ HasBit(cmpd, 4) <=> (cmpa.gid # cmpb.gid
                                 /\ (cred.euid = 0 \/ cmpa.gid \in cred.gids))

\* owner tracking on, the uids differ, the caller is neither root nor the owner of the
\* source: bit 0x00000002 is not set
C38_UidUnflagged ==
  /\ Compared /\ f_owner # 0 /\ cmpa.uid # cmpb.uid /\ ~HasBit(cmpd, 2)
  /\ cred.euid # 0 /\ cmpa.uid # cred.uid

\* the rest of the claim as the code has it: no bit with tracking off, the gid bit
\* under the group condition, the uid bit when the caller is root or owns the source
C38_OwnerBitsGuarded ==
  Compared =>
    /\ f_owner = 0 => ~HasBit(cmpd, 2) /\ ~HasBit(cmpd, 4)
    /\ f_owner # 0 =>
         /\ HasBit(cmpd, 2) <=> (cmpa.uid # cmpb.uid
                                 /\ (cmpa.uid = cred.uid \/ cred.euid = 0))
         /\ HasBit(cmpd, 4) <=> (cmpa.gid # cmpb.gid
                                 /\ (cred.euid = 0 \/ cmpa.gid \in cred.gids))

\* C39: a default ACL on a node that is not a directory is ignored by node_compare:
\* for a pair of nodes that are not directories bit 0x00400000 is never set, whatever
\* default ACLs the two nodes carry.
C39_DefaultAclIgnored ==
  (Compared /\ cmpa.type # "dir" /\ cmpb.type # "dir") => ~HasBit(cmpd, 4194304)

\* two regular files, the source with a default ACL the destination has not: the bit is set
C39_NonDirFlagged ==
  /\ Compared /\ cmpa.type = "reg" /\ cmpb.type = "reg"
  /\ cmpa.def # NULL /\ cmpb.def = NULL /\ HasBit(cmpd, 4194304)

(***************************************************************************)
(* The pair "a", "d/a" of SpecMeta, as the run found it                    *)
(***************************************************************************)
MetaSrc == <<"a">>
MetaDst == <<"d", "a">>
Devices == {"blk", "chr"}
\* both are there and of one type, of the set T
SameTypePair(T) ==
  /\ run = 1 /\ f_update # 0
  /\ MetaSrc \in DOMAIN fs0 /\ MetaDst \in DOMAIN fs0
  /\ fs0[MetaSrc].type \in T /\ fs0[MetaDst].type = fs0[MetaSrc].type
\* the divergence mask of the pair
PairMask == node_compare(node_get(fs0, MetaSrc), node_get(fs0, MetaDst))
\* the calls of check_new_or_updated on "d/a"
CnuAt(op) == LogAt("check_new_or_updated", op, MetaDst)
\* mtime 0x100, size 0x1000, digest 0x10000 and 0x20000, archive 0x20000000
ContentBits == {256, 4096, 65536, 131072, 536870912}

\* C34: for a pair of regular files with update on, file_copy is invoked exactly when
\* content copy is enabled and force is set or the mask has an mtime, size, digest or
\* archive bit; a divergence in owner, ACL, extended attribute or flag bits alone leaves
\* the content as it is and node_update alone handles it.
C34_ContentCopyExactly ==
  SameTypePair({"reg"}) =>
    LET copied == CnuAt("file_copy") # {}
        due    == f_content # 0 /\ (f_force # 0 \/ AndMask(PairMask, ContentBits))
    IN  /\ copied => due
        /\ (dpc = "exit" /\ due) => copied
        /\ (dpc = "exit" /\ ~due /\ PairMask # 0) =>
              /\ CnuAt("node_update") # {}
              /\ fs[MetaDst].data = fs0[MetaDst].data /\ fs[MetaDst].mtime = fs0[MetaDst].mtime

\* two regular files that differ in their owner only, -o, run by root: the owner is
\* set, the content is not copied
C34_Witness ==
  /\ SameTypePair({"reg"}) /\ dpc = "exit" /\ f_force = 0 /\ f_content # 0
  /\ PairMask = 2 + 4
  /\ CnuAt("file_copy") = {} /\ CnuAt("node_update") # {}
  /\ fs[MetaDst].data = fs0[MetaDst].data /\ fs[MetaDst].uid = fs0[MetaSrc].uid
  /\ fs0[MetaDst].uid # fs0[MetaSrc].uid

\* two regular files of different size: the content is copied
C34_CopiedForSize ==
  /\ SameTypePair({"reg"}) /\ dpc = "exit" /\ f_force = 0 /\ PairMask = 4096
  /\ CnuAt("file_copy") # {} /\ fs[MetaDst].data = fs0[MetaSrc].data

\* C35: for a pair of block or character devices with update on, the destination is
\* unlinked and made again with mknod only when the device bit 0x00000020 is in the
\* mask or force is set; a divergence in metadata only leaves the device node in place.
C35_RecreateOnlyOnDeviceBit ==
  SameTypePair(Devices) =>
    ((CnuAt("unlink") # {} \/ CnuAt("mknod") # {}) => (f_force # 0 \/ HasBit(PairMask, 32)))

\* two devices that differ in their mtime only, -tt: the destination is unlinked and
\* made again
C35_RecreatedForTimes ==
  /\ SameTypePair(Devices) /\ f_force = 0 /\ PairMask = 256
  /\ \E i \in CnuAt("unlink"), j \in CnuAt("mknod") : i < j /\ log[i].ok /\ log[j].ok

\* a pair of devices is made again on every divergence and under force, and only then
C35_RecreateOnAnyDivergence ==
  (SameTypePair(Devices) /\ dpc = "exit") =>
    (CnuAt("mknod") # {} <=> (f_force # 0 \/ PairMask # 0))

\* C37: every block or character device the driver creates (destination missing, type
\* change, same type made again) denotes the device of the source: its rdev is the
\* source node's rdev.
C37_CreatedDeviceRdev ==
  (run = 1 /\ MetaDst \in DOMAIN fs /\ \E i \in CnuAt("mknod") : log[i].ok) =>
    /\ fs[MetaDst].type = fs0[MetaSrc].type
    /\ fs[MetaDst].rdev = fs0[MetaSrc].rdev

\* what mknod is given is st_dev of the source, the filesystem it is on
C37_RdevIsSourceStDev ==
  (run = 1 /\ MetaDst \in DOMAIN fs /\ \E i \in CnuAt("mknod") : log[i].ok) =>
    /\ fs[MetaDst].type = fs0[MetaSrc].type
    /\ fs[MetaDst].rdev = fs0[MetaSrc].dev

\* the device made where the destination had none, where it had a regular file and
\* where it had a device: rdev is not the source's
MadeWrong ==
  /\ run = 1 /\ MetaDst \in DOMAIN fs /\ \E i \in CnuAt("mknod") : log[i].ok
  /\ fs[MetaDst].rdev # fs0[MetaSrc].rdev
C37_NewWrongRdev      == MadeWrong /\ MetaDst \notin DOMAIN fs0
C37_RetypeWrongRdev   == MadeWrong /\ MetaDst \in DOMAIN fs0 /\ fs0[MetaDst].type = "reg"
C37_SameTypeWrongRdev == MadeWrong /\ MetaDst \in DOMAIN fs0 /\ fs0[MetaDst].type = "chr"

\* the destination "d/a" was there and the driver made or wrote the source's object in
\* its place: a change of type where the source is no directory, the content of a
\* regular file copied, a symbolic link or a device made again
Replaced ==
  /\ run = 1 /\ f_update # 0
  /\ MetaSrc \in DOMAIN fs0 /\ MetaDst \in DOMAIN fs0 /\ fs0[MetaSrc].type # "dir"
  /\ \E op \in {"file_copy", "symlink", "mknod"} : \E i \in CnuAt(op) : log[i].ok
\* the run has ended and nothing failed
EndedWell == dpc = "exit" /\ exitrc = 0 /\ AllOk
\* every attribute of map a is in map b with the same bytes
AttrsIn(a, b) == \A k \in DOMAIN a : k \in DOMAIN b /\ b[k] = a[k]

\* C32: when node_update runs after the driver has replaced or rewritten the
\* destination in the same step, what it skips is decided on the destination as it is
\* after the replacement: the new object ends the step with the source's owner, mode,
\* times, extended attributes and ACLs, under the switches that are on.
C32_ReplacedEndsLikeSource ==
  (Replaced /\ EndedWell) =>
    LET s == fs0[MetaSrc]
        o == fs[MetaDst]
    IN  /\ f_times > 1 => o.mtime = s.mtime
        /\ (f_owner # 0 /\ cred.euid = 0) => (o.uid = s.uid /\ o.gid = s.gid)
        /\ f_perms # 0 => o.mode = s.mode
        /\ f_attrs # 0 => AttrsIn(s.usr, o.usr)
        /\ f_acls # 0 => (s.acc # NULL => o.acc = s.acc)

\* the content of a regular file was copied under -tt, the two had the same mtime:
\* the destination keeps the time of the copy
C32_StaleTimes ==
  /\ Replaced /\ EndedWell /\ f_times > 1 /\ f_force = 0
  /\ fs0[MetaSrc].type = "reg" /\ fs0[MetaDst].type = "reg"
  /\ fs0[MetaSrc].mtime = fs0[MetaDst].mtime /\ fs[MetaDst].mtime # fs0[MetaSrc].mtime

\* a regular file was replaced by a symbolic link under -X, the file had the
\* attributes of the link: the new link has none
C32_StaleAttrs ==
  /\ Replaced /\ EndedWell /\ f_attrs # 0 /\ f_force = 0
  /\ fs0[MetaSrc].type = "lnk" /\ fs0[MetaDst].type = "reg"
  /\ AttrsIn(fs0[MetaSrc].usr, fs0[MetaDst].usr) /\ ~AttrsIn(fs0[MetaSrc].usr, fs[MetaDst].usr)

\* a regular file was replaced by a device under -A, the file had the ACL of the
\* device: the new device has none
C32_StaleAcl ==
  /\ Replaced /\ EndedWell /\ f_acls # 0 /\ f_force = 0
  /\ fs0[MetaSrc].type = "chr" /\ fs0[MetaDst].type = "reg"
  /\ fs0[MetaSrc].acc = fs0[MetaDst].acc /\ fs[MetaDst].acc # fs0[MetaSrc].acc

\* the source names that the destination does not have, no directories
NewNames ==
  {s \in {<<"a">>, <<"b">>} : s \in DOMAIN fs0 /\ fs0[s].type # "dir"
                              /\ <<"d">> \o s \notin DOMAIN fs0}
\* the process died in the node_update of path p
CrashedAt(p) ==
  /\ dpc = "crash"
  /\ \E i \in LogAt("check_new_or_updated", "node_update", p) :
       \A j \in DOMAIN log : j > i => log[j].who = "node_update"

\* C33: for a source object whose name the destination does not have, with extended
\* attributes or ACLs on, the node_update after the creation, called without a
\* destination node, takes every destination counterpart as missing, installs every
\* attribute and every ACL of the source on the new object and completes without
\* reading a field of the destination node that is not there.
C33_NewInstallsAll ==
  (run = 1 /\ f_update # 0 /\ f_content # 0 /\ (f_attrs # 0 \/ f_acls # 0)) =>
    \A s \in NewNames :
      LET p == <<"d">> \o s
      IN  /\ ~CrashedAt(p)
          /\ (EndedWell /\ p \in DOMAIN fs) =>
                /\ f_attrs # 0 => AttrsIn(fs0[s].usr, fs[p].usr)
                /\ f_acls # 0 => (fs0[s].acc # NULL => fs[p].acc = fs0[s].acc)

\* -X, "b" is new and has extended attributes: node_update reads x.usr of the null
\* destination node, the process dies
C33_NullNodeRead ==
  /\ run = 1 /\ f_update # 0 /\ f_attrs # 0 /\ f_acls = 0
  /\ <<"b">> \in NewNames /\ DOMAIN fs0[<<"b">>].usr # {} /\ CrashedAt(<<"d", "b">>)

\* -A, "a" is new and has an access ACL: node_update reads a.acc of the null
\* destination node
C33_NullNodeReadAcl ==
  /\ run = 1 /\ f_update # 0 /\ f_acls # 0 /\ f_attrs = 0
  /\ <<"a">> \in NewNames /\ fs0[<<"a">>].acc # NULL /\ CrashedAt(<<"d", "a">>)

\* where the read yields a null pointer and the process lives: the walk over the
\* source's attributes ends at the first one installed, extattr_set_link returns the
\* number of bytes written; "d/b" has the attribute a and not b
C33_FirstAttrOnly ==
  /\ run = 1 /\ f_update # 0 /\ f_attrs # 0 /\ EndedWell
  /\ <<"b">> \in NewNames /\ <<"d", "b">> \in DOMAIN fs
  /\ DOMAIN fs0[<<"b">>].usr = {"a", "b"} /\ DOMAIN fs[<<"d", "b">>].usr = {"a"}

\* where the process lives, every ACL of the source is installed on the new object
C33_AclsIfAlive ==
  (run = 1 /\ f_update # 0 /\ f_content # 0 /\ f_acls # 0 /\ EndedWell) =>
    \A s \in NewNames :
      (<<"d">> \o s \in DOMAIN fs /\ fs0[s].acc # NULL) => fs[<<"d">> \o s].acc = fs0[s].acc

====
